---- MODULE Spec2Model ----
(***************************************************************************)
(* Article consolidation pipeline of news_feed: normalizer, deduper,       *)
(* classifier.  Text values (titles, links, tabs, keywords ...) are        *)
(* sequences of one-character strings, so that the string operations of    *)
(* the code (lower, regex substitution, substring test, URL splitting) are *)
(* computed rather than assumed.                                           *)
(***************************************************************************)
EXTENDS Integers, Sequences, FiniteSets, TLC

VARIABLES
    articles,        \* deduplicate: the argument list
    stage1_results,  \* deduplicate: list(guid_map.values())
    stage2_results,  \* deduplicate: list(url_map.values())
    final_results,   \* deduplicate: list(title_source_map.values()), the return value
    dd_pc,           \* deduplicate: "call" | "returned" | "raised"
    dd_exc,          \* deduplicate: the exception that left the call, or "none"
    dd_second_input, \* deduplicate, a second call: its argument list
    dd_second_result,\* deduplicate, a second call: the list returned and the exception
    dd_second_pc,    \* deduplicate, a second call: "idle" | "again" | "permuted"
    cl_self,         \* Classifier: the instance __init__ built from the rules dictionary
    cl_article,      \* Classifier.classify: the argument
    cl_keyword_match,\* Classifier.classify: the local keyword_match ("unset" before step 2)
    cl_result,       \* Classifier.classify: the return value
    cl_pc,           \* Classifier: "idle" | "ready" (constructed) | "returned"
    ca_articles,     \* classify_articles: the argument list as the caller passed it
    ca_rules,        \* classify_articles: the rules dictionary
    ca_writes,       \* classify_articles: per record, the fields assigned, in order
    ca_returned,     \* classify_articles: the returned list (the argument, mutated)
    ca_pc,           \* classify_articles: "idle" | "call" | "returned"
    sel_articles,    \* select_by_category: the argument list
    sel_result,      \* select_by_category: the returned dict tab -> category -> list
    sel_pc,          \* select_by_category: "idle" | "call" | "returned" | "repeated"
    sel_items_per_category, \* select_by_category: the argument items_per_category
    sel_other_items, \* the items_per_category of a second call on the same list
    sel_other_result, \* what the second call returned
    nu_url,          \* normalize_url: the argument
    nu_result,       \* normalize_url: the return value
    nu_key,          \* deduplicate, link stage: normalize_url of the normalized link
    nu_pc,           \* normalize_url: "idle" | "call" | "returned" | "keyed"
    ne_entry,        \* normalize_entry: the raw entry dict
    ne_args,         \* normalize_entry: tab, language, rss_category, source_name
    ne_result,       \* normalize_entry: <<the NormalizedArticle returned>>, <<>> for None
    ne_pc,           \* normalize_entry: "idle" | "call" | "returned"
    gg_entry,        \* generate_guid: the raw entry dict
    gg_link,         \* generate_guid: the link argument
    gg_title,        \* generate_guid: the title argument
    gg_result,       \* generate_guid: the return value
    gg_again,        \* generate_guid: the return value of a second call, same arguments
    gg_pc,           \* generate_guid: "idle" | "call" | "returned" | "repeated"
    pd_entry,        \* parse_datetime: the raw entry dict
    pd_result,       \* parse_datetime: <<the datetime returned>>, <<>> before the call
    pd_pc,           \* parse_datetime: "idle" | "call" | "returned"
    na_raw_feeds,    \* normalize_all: the dict tab_id -> entries, in insertion order
    na_config,       \* normalize_all: config.tabs, tab_id -> language
    na_articles,     \* normalize_all: the returned list
    na_pc,           \* normalize_all: "idle" | "call" | "returned" | "raised"
    ff_retries,      \* fetch_feed: the retries argument
    ff_max_items,    \* fetch_feed: the max_items argument
    ff_attempt,      \* fetch_feed: the loop variable attempt
    ff_requests,     \* fetch_feed: the number of requests.get calls made
    ff_log,          \* fetch_feed: the requests and sleeps made, in order
    ff_result,       \* fetch_feed: the returned list
    ff_pc            \* fetch_feed: "idle" | "request" | "sleep" | "returned" | "raised"

dd_vars == <<articles, stage1_results, stage2_results, final_results, dd_pc, dd_exc,
             dd_second_input, dd_second_result, dd_second_pc>>
cl_vars == <<cl_self, cl_article, cl_keyword_match, cl_result, cl_pc>>
ca_vars == <<ca_articles, ca_rules, ca_writes, ca_returned, ca_pc>>
sel_vars == <<sel_articles, sel_result, sel_pc,
             sel_items_per_category, sel_other_items, sel_other_result>>
nu_vars == <<nu_url, nu_result, nu_key, nu_pc>>
ne_vars == <<ne_entry, ne_args, ne_result, ne_pc>>
gg_vars == <<gg_entry, gg_link, gg_title, gg_result, gg_again, gg_pc>>
pd_vars == <<pd_entry, pd_result, pd_pc>>
na_vars == <<na_raw_feeds, na_config, na_articles, na_pc>>
ff_vars == <<ff_retries, ff_max_items, ff_attempt, ff_requests, ff_log, ff_result, ff_pc>>
vars == <<dd_vars, cl_vars, ca_vars, sel_vars, nu_vars, ne_vars, gg_vars, pd_vars, na_vars, ff_vars>>

\* a component that takes no part in a specification stays as constructed
DdIdle ==
    /\ articles = <<>> /\ stage1_results = <<>> /\ stage2_results = <<>>
    /\ final_results = <<>> /\ dd_pc = "idle" /\ dd_exc = "none"
    /\ dd_second_input = <<>> /\ dd_second_pc = "idle"
    /\ dd_second_result = [final |-> <<>>, exc |-> "none"]
ClIdle ==
    /\ cl_self = <<>> /\ cl_article = <<>> /\ cl_keyword_match = "unset"
    /\ cl_result = "" /\ cl_pc = "idle"
CaIdle ==
    /\ ca_articles = <<>> /\ ca_rules = <<>> /\ ca_writes = <<>>
    /\ ca_returned = <<>> /\ ca_pc = "idle"
SelIdle ==
    /\ sel_articles = <<>> /\ sel_result = <<>> /\ sel_pc = "idle"
    /\ sel_items_per_category = 0 /\ sel_other_items = 0 /\ sel_other_result = <<>>
NuIdle == nu_url = <<>> /\ nu_result = <<>> /\ nu_key = <<>> /\ nu_pc = "idle"
NeIdle == ne_entry = <<>> /\ ne_args = <<>> /\ ne_result = <<>> /\ ne_pc = "idle"
GgIdle ==
    /\ gg_entry = <<>> /\ gg_link = <<>> /\ gg_title = <<>>
    /\ gg_result = <<>> /\ gg_again = <<>> /\ gg_pc = "idle"
PdIdle == pd_entry = <<>> /\ pd_result = <<>> /\ pd_pc = "idle"
NaIdle == na_raw_feeds = <<>> /\ na_config = <<>> /\ na_articles = <<>> /\ na_pc = "idle"
FfIdle ==
    /\ ff_retries = 0 /\ ff_max_items = 0 /\ ff_attempt = 0 /\ ff_requests = 0
    /\ ff_log = <<>> /\ ff_result = <<>> /\ ff_pc = "idle"

(***************************************************************************)
(* Text helpers (Python str methods used by the code)                      *)
(***************************************************************************)
LowerLetters == <<"a", "b", "c", "d", "e", "f", "g", "h", "i", "j", "k", "l", "m",
                  "n", "o", "p", "q", "r", "s", "t", "u", "v", "w", "x", "y", "z">>
UpperLetters == <<"A", "B", "C", "D", "E", "F", "G", "H", "I", "J", "K", "L", "M",
                  "N", "O", "P", "Q", "R", "S", "T", "U", "V", "W", "X", "Y", "Z">>
Digits == {"0", "1", "2", "3", "4", "5", "6", "7", "8", "9"}
Range(s) == {s[i] : i \in DOMAIN s}
Letters == Range(LowerLetters) \cup Range(UpperLetters)

UpperSet == Range(UpperLetters)
LowerOf == [c \in UpperSet |->
               LowerLetters[CHOOSE i \in DOMAIN UpperLetters : UpperLetters[i] = c]]

\* str.lower() on one character
LowerChar(c) == IF c \in UpperSet THEN LowerOf[c] ELSE c

\* str.lower()
Lower(s) == [i \in DOMAIN s |-> LowerChar(s[i])]

\* str.find(c) + 1: the first position of character c in s, 0 when absent
Find(s, c) ==
    IF \E i \in DOMAIN s : s[i] = c
    THEN CHOOSE i \in DOMAIN s : s[i] = c /\ \A j \in 1..(i - 1) : s[j] # c
    ELSE 0

\* the first position in s of any character of set cs, Len(s) + 1 when absent
FindAny(s, cs) ==
    IF \E i \in DOMAIN s : s[i] \in cs
    THEN CHOOSE i \in DOMAIN s : s[i] \in cs /\ \A j \in 1..(i - 1) : s[j] \notin cs
    ELSE Len(s) + 1

\* s[i:] with a 1-based first position
From(s, i) == SubSeq(s, i, Len(s))

\* sub in s (Python substring test)
Contains(s, sub) ==
    \E i \in 0..(Len(s) - Len(sub)) : SubSeq(s, i + 1, i + Len(sub)) = sub

RECURSIVE RStrip(_, _)
\* str.rstrip(c) for a single character c
RStrip(s, c) ==
    IF s # <<>> /\ s[Len(s)] = c THEN RStrip(SubSeq(s, 1, Len(s) - 1), c) ELSE s

RECURSIVE Split(_, _)
\* str.split(c): the pieces of s between occurrences of character c
Split(s, c) ==
    LET i == Find(s, c)
    IN  IF i = 0 THEN <<s>> ELSE <<SubSeq(s, 1, i - 1)>> \o Split(From(s, i + 1), c)

RECURSIVE Join(_, _)
\* sep.join(parts)
Join(parts, sep) ==
    IF parts = <<>> THEN <<>>
    ELSE IF Len(parts) = 1 THEN parts[1]
    ELSE parts[1] \o sep \o Join(Tail(parts), sep)

(***************************************************************************)
(* normalizer.py: URL normalization                                        *)
(***************************************************************************)
S_http  == <<"h", "t", "t", "p">>
S_https == <<"h", "t", "t", "p", "s">>

\* TRACKING_PARAMS
TRACKING_PARAMS ==
    { <<"u", "t", "m", "_", "s", "o", "u", "r", "c", "e">>,
      <<"u", "t", "m", "_", "m", "e", "d", "i", "u", "m">>,
      <<"u", "t", "m", "_", "c", "a", "m", "p", "a", "i", "g", "n">>,
      <<"u", "t", "m", "_", "t", "e", "r", "m">>,
      <<"u", "t", "m", "_", "c", "o", "n", "t", "e", "n", "t">>,
      <<"f", "b", "c", "l", "i", "d">>,
      <<"g", "c", "l", "i", "d">>,
      <<"r", "e", "f">>,
      <<"s", "o", "u", "r", "c", "e">>,
      <<"m", "c", "_", "c", "i", "d">>,
      <<"m", "c", "_", "e", "i", "d">>,
      <<"o", "c", "i", "d">> }

\* urllib.parse: scheme_chars, uses_netloc and uses_params (the schemes the model uses)
SchemeChars == Letters \cup Digits \cup {"+", "-", "."}
UsesNetloc == {S_http, S_https}
UsesParams == {<<>>, S_http, S_https}

\* urllib.parse: characters quote_plus leaves alone, and the escapes of the others
QuoteSafe == Letters \cup Digits \cup {"_", ".", "-", "~"}
PercentCodes ==
    << <<"!", "2", "1">>, <<"#", "2", "3">>, <<"%", "2", "5">>, <<"&", "2", "6">>,
       <<"+", "2", "B">>, <<"/", "2", "F">>, <<":", "3", "A">>, <<";", "3", "B">>,
       <<"=", "3", "D">>, <<"?", "3", "F">>, <<"|", "7", "C">> >>

\* urllib.parse.quote_plus on one character
QuotePlusChar(c) ==
    IF c = " " THEN <<"+">>
    ELSE IF c \in QuoteSafe THEN <<c>>
    ELSE IF \E i \in DOMAIN PercentCodes : PercentCodes[i][1] = c
    THEN LET e == PercentCodes[CHOOSE i \in DOMAIN PercentCodes : PercentCodes[i][1] = c]
         IN  <<"%", e[2], e[3]>>
    ELSE <<c>>

RECURSIVE QuotePlus(_)
\* urllib.parse.quote_plus
QuotePlus(s) ==
    IF s = <<>> THEN <<>> ELSE QuotePlusChar(s[1]) \o QuotePlus(Tail(s))

RECURSIVE Unquote(_)
\* urllib.parse.unquote: %XY escapes decoded, anything else kept
Unquote(s) ==
    IF s = <<>> THEN <<>>
    ELSE IF s[1] = "%" /\ Len(s) >= 3
            /\ \E i \in DOMAIN PercentCodes :
                   PercentCodes[i][2] = s[2] /\ PercentCodes[i][3] = s[3]
    THEN LET e == PercentCodes[CHOOSE i \in DOMAIN PercentCodes :
                                   PercentCodes[i][2] = s[2] /\ PercentCodes[i][3] = s[3]]
         IN  <<e[1]>> \o Unquote(From(s, 4))
    ELSE <<s[1]>> \o Unquote(Tail(s))

\* parse_qs decodes a name or a value: '+' becomes a space, then unquote
UnquotePlus(s) == Unquote([i \in DOMAIN s |-> IF s[i] = "+" THEN " " ELSE s[i]])

\* _splitparams: the path is cut at the first ';' after its last '/'
SplitParams(scheme, netloc, url, query, fragment) ==
    LET slashes == {k \in DOMAIN url : url[k] = "/"}
        semis == {k \in DOMAIN url : url[k] = ";" /\ \A m \in slashes : m < k}
        semi == IF semis = {} THEN 0 ELSE CHOOSE k \in semis : \A m \in semis : k <= m
    IN  IF scheme \in UsesParams /\ semi # 0
        THEN [scheme |-> scheme, netloc |-> netloc, path |-> SubSeq(url, 1, semi - 1),
              params |-> From(url, semi + 1), query |-> query, fragment |-> fragment]
        ELSE [scheme |-> scheme, netloc |-> netloc, path |-> url,
              params |-> <<>>, query |-> query, fragment |-> fragment]

\* urlsplit: the query follows the first '?'
SplitQuery(scheme, netloc, url, fragment) ==
    LET q == Find(url, "?")
    IN  IF q = 0 THEN SplitParams(scheme, netloc, url, <<>>, fragment)
        ELSE SplitParams(scheme, netloc, SubSeq(url, 1, q - 1), From(url, q + 1), fragment)

\* urlsplit: the fragment follows the first '#'
SplitFragment(scheme, netloc, url) ==
    LET h == Find(url, "#")
    IN  IF h = 0 THEN SplitQuery(scheme, netloc, url, <<>>)
        ELSE SplitQuery(scheme, netloc, SubSeq(url, 1, h - 1), From(url, h + 1))

\* urlsplit: after '//' the netloc runs to the first of '/', '?', '#'
SplitNetloc(scheme, url) ==
    IF Len(url) >= 2 /\ url[1] = "/" /\ url[2] = "/"
    THEN LET delim == FindAny(From(url, 3), {"/", "?", "#"})
         IN  SplitFragment(scheme, SubSeq(url, 3, delim + 1), From(url, delim + 2))
    ELSE SplitFragment(scheme, <<>>, url)

\* urllib.parse.urlparse: urlsplit, then the split of the path parameters
urlparse(url) ==
    LET i == Find(url, ":")
    IN  IF i > 1 /\ url[1] \in Letters /\ \A j \in 1..(i - 1) : url[j] \in SchemeChars
        THEN SplitNetloc(Lower(SubSeq(url, 1, i - 1)), From(url, i + 1))
        ELSE SplitNetloc(<<>>, url)

\* urllib.parse.urlunparse
urlunparse(scheme, netloc, path, params, query, fragment) ==
    LET u1 == IF params # <<>> THEN path \o <<";">> \o params ELSE path
        withNet == \/ netloc # <<>>
                   \/ (scheme # <<>> /\ scheme \in UsesNetloc
                         /\ (Len(u1) < 2 \/ SubSeq(u1, 1, 2) # <<"/", "/">>))
        u2 == IF withNet
              THEN <<"/", "/">> \o netloc
                   \o (IF u1 # <<>> /\ u1[1] # "/" THEN <<"/">> ELSE <<>>) \o u1
              ELSE u1
        u3 == IF scheme # <<>> THEN scheme \o <<":">> \o u2 ELSE u2
        u4 == IF query # <<>> THEN u3 \o <<"?">> \o query ELSE u3
    IN  IF fragment # <<>> THEN u4 \o <<"#">> \o fragment ELSE u4

\* dict[key].append(value), the keys kept in first-insertion order
QsAdd(d, k, v) ==
    IF \E i \in DOMAIN d : d[i].k = k
    THEN [i \in DOMAIN d |-> IF d[i].k = k THEN [k |-> k, v |-> Append(d[i].v, v)] ELSE d[i]]
    ELSE Append(d, [k |-> k, v |-> <<v>>])

RECURSIVE ParseQsLoop(_, _)
ParseQsLoop(pairs, d) ==
    IF pairs = <<>> THEN d
    ELSE LET nv == pairs[1]
             e == Find(nv, "=")
             name == SubSeq(nv, 1, e - 1)
             value == From(nv, e + 1)
         IN  IF e = 0 \/ value = <<>>
             THEN ParseQsLoop(Tail(pairs), d)   \* keep_blank_values is False
             ELSE ParseQsLoop(Tail(pairs), QsAdd(d, UnquotePlus(name), UnquotePlus(value)))

\* urllib.parse.parse_qs: name -> list of values, blank values dropped
parse_qs(query) ==
    IF query = <<>> THEN <<>> ELSE ParseQsLoop(Split(query, "&"), <<>>)

RECURSIVE EncodeValues(_, _)
EncodeValues(k, vs) ==
    IF vs = <<>> THEN <<>>
    ELSE <<QuotePlus(k) \o <<"=">> \o QuotePlus(vs[1])>> \o EncodeValues(k, Tail(vs))

RECURSIVE EncodePairs(_)
EncodePairs(d) ==
    IF d = <<>> THEN <<>> ELSE EncodeValues(d[1].k, d[1].v) \o EncodePairs(Tail(d))

\* urllib.parse.urlencode(query, doseq=True)
urlencode(d) == Join(EncodePairs(d), <<"&">>)

NotTracking(e) == Lower(e.k) \notin TRACKING_PARAMS

\* urlsplit raises ValueError("Invalid IPv6 URL") when the netloc holds one of
\* '[' and ']' without the other
UrlsplitRaises(url) ==
    LET netloc == urlparse(url).netloc
    IN  ("[" \in Range(netloc)) # ("]" \in Range(netloc))

\* normalize_url
normalize_url(url) ==
    IF url = <<>> THEN <<>>
    ELSE IF UrlsplitRaises(url) THEN url   \* except Exception: return url
    ELSE LET parsed == urlparse(url)
             query == parse_qs(parsed.query)
             filtered_query == SelectSeq(query, NotTracking)
             path == RStrip(parsed.path, "/")
         IN  urlunparse(Lower(parsed.scheme),
                        Lower(parsed.netloc),
                        IF path = <<>> THEN <<"/">> ELSE path,
                        parsed.params,
                        urlencode(filtered_query),
                        <<>>)

(***************************************************************************)
(* deduper.py                                                              *)
(***************************************************************************)
\* re: \w (word characters) and \s (whitespace) over the characters of the model
WordChars == Letters \cup Digits \cup {"_"}
SpaceChars == {" "}

KeepInTitle(c) == c \in WordChars \/ c \in SpaceChars

RECURSIVE CollapseSpaces(_)
\* re.sub(r'\s+', ' ', title): every run of whitespace becomes one space
CollapseSpaces(s) ==
    IF s = <<>> THEN <<>>
    ELSE IF s[1] \in SpaceChars
    THEN LET n == FindAny(s, Range(s) \ SpaceChars)
         IN  <<" ">> \o CollapseSpaces(From(s, n))
    ELSE <<s[1]>> \o CollapseSpaces(Tail(s))

\* str.strip() of a text whose whitespace runs are already single spaces
Strip(s) ==
    LET a == IF s # <<>> /\ s[1] = " " THEN Tail(s) ELSE s
    IN  IF a # <<>> /\ a[Len(a)] = " " THEN SubSeq(a, 1, Len(a) - 1) ELSE a

\* normalize_title_for_comparison
normalize_title_for_comparison(title) ==
    Strip(CollapseSpaces(SelectSeq(Lower(title), KeepInTitle)))

T_zh_news == <<"z", "h", "_", "n", "e", "w", "s">>
T_en_news == <<"e", "n", "_", "n", "e", "w", "s">>

\* links: the second normalizes to the first
LinkA  == <<"h", "t", "t", "p", ":", "/", "/", "x", ".", "c", "o", "/", "a">>
LinkAv == <<"H", "T", "T", "P", ":", "/", "/", "X", ".", "c", "o", "/", "a", "/", "?",
            "u", "t", "m", "_", "s", "o", "u", "r", "c", "e", "=", "1", "#", "f">>
LinkB  == <<"h", "t", "t", "p", ":", "/", "/", "x", ".", "c", "o", "/", "b">>
LinkC  == <<"h", "t", "t", "p", "s", ":", "/", "/", "x", ".", "c", "o", "/", "b">>
Links == {LinkA, LinkAv, LinkB, LinkC}

\* normalize_url(article.link) for the links of the model, computed once
NormalizedLink == [l \in Links |-> normalize_url(l)]

Guids == {<<"g", "1">>, <<"g", "2">>, <<"g", "3">>}

\* (tab, title, source_name): the second has the comparison key of the first; the
\* others differ from the first in the tab, in the source and in the title
Headings ==
    { [tab |-> T_zh_news, title |-> <<"H", "i", " ", "y", "o">>, source_name |-> <<"A">>],
      [tab |-> T_zh_news, title |-> <<"h", "i", ",", " ", " ", "Y", "o", "!">>, source_name |-> <<"A">>],
      [tab |-> T_en_news, title |-> <<"H", "i", " ", "y", "o">>, source_name |-> <<"A">>],
      [tab |-> T_zh_news, title |-> <<"H", "i", " ", "y", "o">>, source_name |-> <<"A", "|", "B">>],
      [tab |-> T_zh_news, title |-> <<"h", "i", "_", "y", "o">>, source_name |-> <<"A">>] }

Titles == {h.title : h \in Headings}

\* normalize_title_for_comparison(article.title) for the titles of the model, computed once
ComparisonTitle == [t \in Titles |-> normalize_title_for_comparison(t)]

\* datetime '>' : a naive and an aware datetime cannot be ordered (TypeError)
CompareRaises(p, q) == p.aware # q.aware

\* variants of the comparison: ties replace the stored record; the older record wins
NewerOrEqual(article, other) == article.published.ts >= other.published.ts

Older(article, other) == article.published.ts < other.published.ts

\* variant: the record met later always replaces the stored one
LaterInList(article, other) == TRUE

\* article.published > other.published
Newer(article, other) == article.published.ts > other.published.ts

\* the three dictionary keys
GuidKey(article) == article.guid

\* variant: the link stage keyed by the raw link
RawLinkKey(article) == article.link

UrlKey(article) == NormalizedLink[article.link]

\* variant: the title stage keyed without the tab
TitleSourceKeyNoTab(article) ==
    ComparisonTitle[article.title] \o <<"|">> \o article.source_name

TitleSourceKey(article) ==
    article.tab \o <<"|">> \o ComparisonTitle[article.title]
                \o <<"|">> \o article.source_name

\* key in d, d[key], d[key] = value (a dict keeps its keys in first-insertion order)
DictHas(d, key) == \E i \in DOMAIN d : d[i].key = key

DictGet(d, key) == d[CHOOSE i \in DOMAIN d : d[i].key = key].val

DictSet(d, key, value) ==
    IF DictHas(d, key)
    THEN [i \in DOMAIN d |-> IF d[i].key = key THEN [key |-> key, val |-> value] ELSE d[i]]
    ELSE Append(d, [key |-> key, val |-> value])

\* variant: the values in reverse insertion order
DictValuesReversed(d) == [i \in DOMAIN d |-> d[Len(d) + 1 - i].val]

\* list(d.values())
DictValues(d) == [i \in DOMAIN d |-> d[i].val]

RECURSIVE DedupLoopNoMembershipTest(_, _, _, _)
\* variant: the stored record is read without the 'key in map' test (KeyError)
DedupLoopNoMembershipTest(arts, keys, i, d) ==
    IF i > Len(arts) THEN [map |-> d, exc |-> "none"]
    ELSE IF ~DictHas(d, keys[i]) THEN [map |-> d, exc |-> "KeyError"]
    ELSE IF Newer(arts[i], DictGet(d, keys[i]))
         THEN DedupLoopNoMembershipTest(arts, keys, i + 1, DictSet(d, keys[i], arts[i]))
         ELSE DedupLoopNoMembershipTest(arts, keys, i + 1, d)

RECURSIVE DedupLoop(_, _, _, _)
\* one stage's loop over arts, keys[i] being the key of arts[i]: the dict it
\* builds, or the exception the comparison raised
DedupLoop(arts, keys, i, d) ==
    IF i > Len(arts) THEN [map |-> d, exc |-> "none"]
    ELSE LET article == arts[i]
             key == keys[i]
         IN  IF DictHas(d, key)
             THEN IF CompareRaises(article.published, DictGet(d, key).published)
                  THEN [map |-> d, exc |-> "TypeError"]
                  ELSE IF Newer(article, DictGet(d, key))
                       THEN DedupLoop(arts, keys, i + 1, DictSet(d, key, article))
                       ELSE DedupLoop(arts, keys, i + 1, d)
             ELSE DedupLoop(arts, keys, i + 1, DictSet(d, key, article))

\* Stage 1: Deduplicate by GUID
Stage1(arts) == DedupLoop(arts, [i \in DOMAIN arts |-> GuidKey(arts[i])], 1, <<>>)

\* variant: the link stage stores each record with its link rewritten to the key
Stage2Rewriting(arts) ==
    DedupLoop([i \in DOMAIN arts |-> [arts[i] EXCEPT !.link = UrlKey(arts[i])]],
              [i \in DOMAIN arts |-> UrlKey(arts[i])], 1, <<>>)

\* Stage 2: Deduplicate by normalized URL
Stage2(arts) == DedupLoop(arts, [i \in DOMAIN arts |-> UrlKey(arts[i])], 1, <<>>)

\* Stage 3: Deduplicate by title + source (near-duplicates)
Stage3(arts) == DedupLoop(arts, [i \in DOMAIN arts |-> TitleSourceKey(arts[i])], 1, <<>>)

\* deduplicate after stage 3: r3 is the outcome of the title + source loop
AfterStage3(s1, s2, r3) ==
    IF r3.exc # "none"
    THEN [stage1 |-> s1, stage2 |-> s2, final |-> <<>>, exc |-> r3.exc]
    ELSE [stage1 |-> s1, stage2 |-> s2, final |-> DictValues(r3.map), exc |-> "none"]

\* deduplicate after stage 2: stage 3 gets list(url_map.values())
AfterStage2(s1, r2) ==
    IF r2.exc # "none"
    THEN [stage1 |-> s1, stage2 |-> <<>>, final |-> <<>>, exc |-> r2.exc]
    ELSE AfterStage3(s1, DictValues(r2.map), Stage3(DictValues(r2.map)))

\* deduplicate after stage 1: stage 2 gets list(guid_map.values())
AfterStage1(r1) ==
    IF r1.exc # "none"
    THEN [stage1 |-> <<>>, stage2 |-> <<>>, final |-> <<>>, exc |-> r1.exc]
    ELSE AfterStage2(DictValues(r1.map), Stage2(DictValues(r1.map)))

\* deduplicate: the three lists it builds and the exception that ends it, if any
deduplicate(arts) ==
    IF arts = <<>>
    THEN [stage1 |-> <<>>, stage2 |-> <<>>, final |-> <<>>, exc |-> "none"]
    ELSE AfterStage1(Stage1(arts))

(***************************************************************************)
(* The NormalizedArticle records given to deduplicate                      *)
(***************************************************************************)
MaxLen == 3

\* published: two timezone-aware instants, and a naive datetime
Published == { [ts |-> 1, aware |-> TRUE], [ts |-> 2, aware |-> TRUE] }
NaivePublished == [ts |-> 1, aware |-> FALSE]

Article(h, l, p, g) ==
    [title |-> h.title, link |-> l, published |-> p, source_name |-> h.source_name,
     language |-> <<"z", "h">>, tab |-> h.tab, rss_category |-> "", guid |-> g,
     description |-> <<>>, final_category |-> "None"]

\* well-formed records: timezone-aware publishedAt
WellFormedPool ==
    { Article(h, l, p, g) : h \in Headings, l \in Links, p \in Published, g \in Guids }

\* records with a naive publishedAt (one heading is enough to meet every stage)
NaivePool ==
    { Article(h, l, NaivePublished, g) :
      h \in {x \in Headings : x.title = <<"H", "i", " ", "y", "o">> /\ x.tab = T_zh_news
                                /\ x.source_name = <<"A">>},
      l \in Links, g \in Guids }

ArticlePool == WellFormedPool \cup NaivePool

\* guids and normalized links are compared for equality only, so the caller's
\* list introduces them in this order (every other list is a renaming of one built so)
GuidOrder == << <<"g", "1">>, <<"g", "2">>, <<"g", "3">> >>
LinkOrder == <<LinkA, LinkB, LinkC>>

InOrder(order, used, v) ==
    \A k \in DOMAIN order :
        order[k] = v => \A m \in 1..(k - 1) : order[m] \in used

\* main(): normalize_all has appended one more record to the list deduplicate will get
AddArticle ==
    /\ dd_pc = "call"
    /\ Len(articles) < MaxLen
    /\ \E a \in ArticlePool :
           /\ InOrder(GuidOrder, {articles[i].guid : i \in DOMAIN articles}, a.guid)
           /\ InOrder(LinkOrder, {NormalizedLink[articles[i].link] : i \in DOMAIN articles},
                      NormalizedLink[a.link])
           /\ articles' = Append(articles, a)
    /\ UNCHANGED <<stage1_results, stage2_results, final_results, dd_pc, dd_exc>>
    /\ UNCHANGED <<dd_second_input, dd_second_result, dd_second_pc>>
    /\ UNCHANGED <<cl_vars, ca_vars, sel_vars, nu_vars, ne_vars,
                 gg_vars, pd_vars, na_vars, ff_vars>>

\* The call deduplicate(articles): the argument list is only read
Deduplicate ==
    /\ dd_pc = "call"
    /\ LET r == deduplicate(articles)
       IN  /\ stage1_results' = r.stage1
           /\ stage2_results' = r.stage2
           /\ final_results' = r.final
           /\ dd_exc' = r.exc
           /\ dd_pc' = IF r.exc = "none" THEN "returned" ELSE "raised"
    /\ articles' = articles
    /\ UNCHANGED <<dd_second_input, dd_second_result, dd_second_pc>>
    /\ UNCHANGED <<cl_vars, ca_vars, sel_vars, nu_vars, ne_vars,
                 gg_vars, pd_vars, na_vars, ff_vars>>

DedupInit ==
    /\ articles = <<>>
    /\ stage1_results = <<>>
    /\ stage2_results = <<>>
    /\ final_results = <<>>
    /\ dd_pc = "call"
    /\ dd_exc = "none"
    /\ dd_second_input = <<>>
    /\ dd_second_result = [final |-> <<>>, exc |-> "none"]
    /\ dd_second_pc = "idle"
    /\ cl_self = <<>>
    /\ cl_article = <<>>
    /\ cl_keyword_match = "unset"
    /\ cl_result = ""
    /\ cl_pc = "idle"
    /\ CaIdle /\ SelIdle /\ NuIdle /\ NeIdle
    /\ GgIdle /\ PdIdle /\ NaIdle /\ FfIdle

DedupNext ==
    \/ AddArticle
    \/ Deduplicate

SpecDedup == DedupInit /\ [][DedupNext]_vars

(***************************************************************************)
(* Properties of deduplicate                                               *)
(***************************************************************************)
Stage1Done == dd_pc = "returned" \/ (dd_pc = "raised" /\ stage1_results # <<>>)

\* well-formed records: non-empty title, link and guid, timezone-aware publishedAt
WellFormed(arts) ==
    \A i \in DOMAIN arts :
        /\ arts[i].title # <<>> /\ arts[i].link # <<>> /\ arts[i].guid # <<>>
        /\ arts[i].published.aware

NormLink(a) == normalize_url(a.link)
Triple(a) == <<a.tab, normalize_title_for_comparison(a.title), a.source_name>>
Count(list, v) == Cardinality({i \in DOMAIN list : list[i] = v})
Distinct(list, Key(_)) ==
    \A i, j \in DOMAIN list : i # j => Key(list[i]) # Key(list[j])
GuidOf(a) == a.guid

\* the position of the stage-1 survivor of guid g: the first of the latest
FirstLatest(arts, g) ==
    CHOOSE i \in DOMAIN arts :
        /\ arts[i].guid = g
        /\ \A j \in DOMAIN arts : arts[j].guid = g =>
               /\ arts[j].published.ts <= arts[i].published.ts
               /\ (arts[j].published.ts = arts[i].published.ts => i <= j)

\* C1: after stage 1, every guid of the input has exactly one survivor, which is
\* the input record of that guid with the latest publishedAt, the first of them
\* in input order when several share the latest publishedAt.
C1_Stage1KeepsFirstLatest ==
    Stage1Done =>
        \A g \in {articles[i].guid : i \in DOMAIN articles} :
            /\ Cardinality({j \in DOMAIN stage1_results : stage1_results[j].guid = g}) = 1
            /\ \E j \in DOMAIN stage1_results :
                   stage1_results[j] = articles[FirstLatest(articles, g)]

\* two different records of one guid tie on the latest publishedAt, and the first survives
C1_Witness ==
    /\ dd_pc = "returned"
    /\ \E i, j \in DOMAIN articles :
           /\ i < j
           /\ articles[i].guid = articles[j].guid
           /\ articles[i].published = articles[j].published
           /\ articles[i] # articles[j]
           /\ i = FirstLatest(articles, articles[i].guid)
           /\ \E k \in DOMAIN stage1_results : stage1_results[k] = articles[i]
           /\ \A k \in DOMAIN stage1_results : stage1_results[k] # articles[j]

\* C2: the result is no longer than the input; stage 1's output has pairwise
\* distinct guid, stage 2's pairwise distinct normalized link, and the returned
\* list pairwise distinct guid, normalized link and (tab, comparison key, source).
C2_SizeAndDistinctKeys ==
    dd_pc = "returned" =>
        /\ Len(final_results) <= Len(articles)
        /\ Distinct(stage1_results, GuidOf)
        /\ Distinct(stage2_results, NormLink)
        /\ Distinct(final_results, GuidOf)
        /\ Distinct(final_results, NormLink)
        /\ Distinct(final_results, Triple)

\* two records with different raw links and one normalized link met in stage 2
C2_Witness ==
    /\ dd_pc = "returned"
    /\ Len(final_results) < Len(articles)
    /\ \E i, j \in DOMAIN stage1_results :
           /\ stage1_results[i].link # stage1_results[j].link
           /\ NormLink(stage1_results[i]) = NormLink(stage1_results[j])

SameGroup(a, b) == a.guid = b.guid \/ NormLink(a) = NormLink(b) \/ Triple(a) = Triple(b)

\* C3 as stated: no input record sharing the guid, the normalized link or the
\* (tab, comparison key, source) of a returned record is strictly later than it.
C3_LatestOfInputGroup ==
    (dd_pc = "returned" /\ WellFormed(articles)) =>
        \A s \in DOMAIN final_results : \A x \in DOMAIN articles :
            SameGroup(final_results[s], articles[x]) =>
                articles[x].published.ts <= final_results[s].published.ts

\* C3 (amended): a returned record is the latest of its group among the records
\* that reached the stage forming that group: no input record with its guid, no
\* stage-1 survivor with its normalized link and no stage-2 survivor with its
\* (tab, comparison key, source) is strictly later than it.
C3_LatestOfStageGroup ==
    (dd_pc = "returned" /\ WellFormed(articles)) =>
        \A s \in DOMAIN final_results :
            LET r == final_results[s]
            IN  /\ \A x \in DOMAIN articles :
                       articles[x].guid = r.guid =>
                           articles[x].published.ts <= r.published.ts
                /\ \A x \in DOMAIN stage1_results :
                       NormLink(stage1_results[x]) = NormLink(r) =>
                           stage1_results[x].published.ts <= r.published.ts
                /\ \A x \in DOMAIN stage2_results :
                       Triple(stage2_results[x]) = Triple(r) =>
                           stage2_results[x].published.ts <= r.published.ts

\* a returned record whose link group in the input holds a later record, which
\* stage 1 had removed for its guid
C3_Witness ==
    /\ dd_pc = "returned"
    /\ WellFormed(articles)
    /\ \E s \in DOMAIN final_results : \E x \in DOMAIN articles :
           /\ NormLink(articles[x]) = NormLink(final_results[s])
           /\ articles[x].guid # final_results[s].guid
           /\ articles[x].published.ts > final_results[s].published.ts
           /\ \A k \in DOMAIN stage1_results : stage1_results[k] # articles[x]

\* C4: a record is removed only when another input record shares its guid, its
\* normalized link or its (tab, comparison key, source); an input pairwise
\* different in all three is returned complete; and the title stage merges only
\* records equal in tab, comparison key and source.
C4_RemovesOnlyDuplicates ==
    dd_pc = "returned" =>
        /\ \A i \in DOMAIN articles :
               Count(articles, articles[i]) > Count(final_results, articles[i]) =>
                   \E j \in DOMAIN articles : j # i /\ SameGroup(articles[i], articles[j])
        /\ (Distinct(articles, GuidOf) /\ Distinct(articles, NormLink)
                /\ Distinct(articles, Triple)) => final_results = articles
        /\ Len(final_results)
               = Cardinality({Triple(stage2_results[i]) : i \in DOMAIN stage2_results})

\* records that agree in title and differ in tab, and records that differ in
\* source only, passed the title stage together
C4_Witness ==
    /\ dd_pc = "returned"
    /\ \E i, j \in DOMAIN final_results :
           /\ final_results[i].title = final_results[j].title
           /\ final_results[i].source_name = final_results[j].source_name
           /\ final_results[i].tab # final_results[j].tab
    /\ \E i, j \in DOMAIN final_results :
           /\ final_results[i].title = final_results[j].title
           /\ final_results[i].tab = final_results[j].tab
           /\ final_results[i].source_name # final_results[j].source_name

\* C5: the call leaves the argument list and its records as they were, and
\* every returned record is one of the argument's records, field for field.
C5_OnlySelects ==
    [][dd_pc = "call" /\ dd_pc' # "call" =>
           /\ articles' = articles
           /\ \A k \in DOMAIN stage1_results' \cup DOMAIN stage2_results' \cup DOMAIN final_results' :
                  /\ k \in DOMAIN stage1_results' =>
                         \E i \in DOMAIN articles : stage1_results'[k] = articles[i]
                  /\ k \in DOMAIN stage2_results' =>
                         \E i \in DOMAIN articles : stage2_results'[k] = articles[i]
                  /\ k \in DOMAIN final_results' =>
                         \E i \in DOMAIN articles : final_results'[k] = articles[i]]_vars

\* a call that removed a record in the link stage, whose key differs from the link
C5_Witness ==
    /\ dd_pc = "returned"
    /\ Len(stage2_results) < Len(stage1_results)
    /\ \E k \in DOMAIN final_results : NormLink(final_results[k]) # final_results[k].link

\* C6: the empty list gives the empty list, and no stage raises on well-formed records.
C6_NoErrorOnWellFormed ==
    (dd_pc # "call" /\ WellFormed(articles)) =>
        /\ dd_pc = "returned"
        /\ dd_exc = "none"
        /\ (articles = <<>> => final_results = <<>>)

\* a well-formed list of three records on which two stages compared publishedAt
C6_Witness ==
    /\ dd_pc = "returned"
    /\ WellFormed(articles)
    /\ Len(articles) = 3
    /\ Len(stage1_results) = 2
    /\ Len(stage2_results) = 1

\* the empty list returned the empty list
C6_WitnessEmpty == dd_pc = "returned" /\ articles = <<>> /\ final_results = <<>>

\* a naive and an aware publishedAt under one key end the call with TypeError
DedupRaisesOnMixedDatetimes == dd_pc = "raised" /\ dd_exc = "TypeError"

(***************************************************************************)
(* classifier.py                                                           *)
(***************************************************************************)
\* VALID_CATEGORIES: the nine zh categories, transliterated (headlines, business,
\* stock market, world news, society, life, entertainment, sports, housing market)
VALID_CATEGORIES ==
    {"TouTiaoXinWen", "ChanJing", "GuShi", "QuanQiuGuoJiXinWen",
     "SheHui", "ShengHuo", "YuLe", "YunDong", "FangShi"}

\* dict.get(key, default)
Get(d, key, default) == IF key \in DOMAIN d THEN d[key] ELSE default

\* Classifier.__init__: the four parts of the rules dictionary, with their defaults
ClassifierOf(rules) ==
    [rss_mapping      |-> Get(rules, "rss_to_target_mapping", <<>>),
     keyword_rules    |-> Get(rules, "keyword_rules", <<>>),
     source_defaults  |-> Get(rules, "source_defaults", <<>>),
     default_category |-> Get(rules, "default_category", "TouTiaoXinWen")]

\* (category, priority, keywords) of one item of keyword_rules
RuleTuple(item) ==
    IF item.rule_data.shape = "dict"
    THEN [category |-> item.category,
          priority |-> Get(item.rule_data, "priority", 99),
          keywords |-> Get(item.rule_data, "keywords", <<>>)]
    ELSE [category |-> item.category, priority |-> 99, keywords |-> item.rule_data.keywords]

\* variant: the rules are scanned in configured order, unsorted
Unsorted(list) == list

RECURSIVE SortByPriority(_)
\* rules_list.sort(key=lambda x: x[1]): a stable sort, ascending priority
SortByPriority(list) ==
    IF list = <<>> THEN <<>>
    ELSE LET sorted == SortByPriority(SubSeq(list, 1, Len(list) - 1))
             last == list[Len(list)]
             n == Cardinality({i \in DOMAIN sorted : sorted[i].priority <= last.priority})
         IN  SubSeq(sorted, 1, n) \o <<last>> \o SubSeq(sorted, n + 1, Len(sorted))

RECURSIVE ScanRulesFirstMatchDecides(_, _)
\* variant: the first rule with a keyword in the text ends the scan, valid or not
ScanRulesFirstMatchDecides(rules_list, text) ==
    IF rules_list = <<>> THEN "None"
    ELSE LET r == rules_list[1]
         IN  IF \E k \in DOMAIN r.keywords : Contains(text, Lower(r.keywords[k]))
             THEN IF r.category \in VALID_CATEGORIES THEN r.category ELSE "None"
             ELSE ScanRulesFirstMatchDecides(Tail(rules_list), text)

RECURSIVE ScanRules(_, _)
\* the scan of the sorted rules: the first keyword found in the text whose rule
\* has a valid category decides
ScanRules(rules_list, text) ==
    IF rules_list = <<>> THEN "None"
    ELSE LET r == rules_list[1]
         IN  IF /\ \E k \in DOMAIN r.keywords : Contains(text, Lower(r.keywords[k]))
                /\ r.category \in VALID_CATEGORIES
             THEN r.category
             ELSE ScanRules(Tail(rules_list), text)

\* Classifier._classify_by_keywords
classify_by_keywords(self, title, description) ==
    LET text == Lower(title \o <<" ">> \o description)
        rules_list == [i \in DOMAIN self.keyword_rules |-> RuleTuple(self.keyword_rules[i])]
    IN  ScanRules(SortByPriority(rules_list), text)

\* rss_mapping[article.rss_category] when the key is present and the value valid
MappingStep(self, article) ==
    IF \E i \in DOMAIN self.rss_mapping :
           /\ self.rss_mapping[i].key = article.rss_category
           /\ self.rss_mapping[i].val \in VALID_CATEGORIES
    THEN self.rss_mapping[CHOOSE i \in DOMAIN self.rss_mapping :
                              self.rss_mapping[i].key = article.rss_category].val
    ELSE "None"

RECURSIVE SourceDefaultStep(_, _)
\* the loop over source_defaults.items()
SourceDefaultStep(defaults, link) ==
    IF defaults = <<>> THEN "None"
    ELSE IF Contains(link, defaults[1].key) /\ defaults[1].val \in VALID_CATEGORIES
    THEN defaults[1].val
    ELSE SourceDefaultStep(Tail(defaults), link)

\* variant: the source defaults are consulted before the keyword rules
classifySourceBeforeKeywords(self, article) ==
    IF article.language # <<"z", "h">>
    THEN [result |-> article.rss_category, keyword_match |-> "unset"]
    ELSE IF MappingStep(self, article) # "None"
    THEN [result |-> MappingStep(self, article), keyword_match |-> "unset"]
    ELSE LET keyword_match == classify_by_keywords(self, article.title, article.description)
             by_source == SourceDefaultStep(self.source_defaults, article.link)
         IN  IF by_source # "None"
             THEN [result |-> by_source, keyword_match |-> keyword_match]
             ELSE IF keyword_match # "None"
             THEN [result |-> keyword_match, keyword_match |-> keyword_match]
             ELSE [result |-> self.default_category, keyword_match |-> keyword_match]

\* Classifier.classify: the value returned and the local keyword_match
classify(self, article) ==
    IF article.language # <<"z", "h">>
    THEN [result |-> article.rss_category, keyword_match |-> "unset"]
    ELSE IF MappingStep(self, article) # "None"
    THEN [result |-> MappingStep(self, article), keyword_match |-> "unset"]
    ELSE LET keyword_match == classify_by_keywords(self, article.title, article.description)
             by_source == SourceDefaultStep(self.source_defaults, article.link)
         IN  IF keyword_match # "None"
             THEN [result |-> keyword_match, keyword_match |-> keyword_match]
             ELSE IF by_source # "None"
             THEN [result |-> by_source, keyword_match |-> keyword_match]
             ELSE [result |-> self.default_category, keyword_match |-> keyword_match]

(***************************************************************************)
(* The rule sets and records given to the Classifier                       *)
(***************************************************************************)
MaxKeywordRules == 2
MaxSourceDefaults == 2

K_gu  == <<"g", "u">>
K_Shi == <<"S", "h", "i">>
P_host == <<"x", ".", "c", "o">>
P_path == <<"/", "a">>
LinkN == <<"h", "t", "t", "p", ":", "/", "/", "y", ".", "t", "w", "/", "c">>

\* injective sequences of at most n elements of S (the items of a dict, in order)
ItemLists(S, n) ==
    { q \in UNION { [1..k -> S] : k \in 0..n } :
        \A i, j \in DOMAIN q : i # j => q[i].key # q[j].key }

RuleData ==
    { [shape |-> "dict", priority |-> 1, keywords |-> <<K_gu>>],
      [shape |-> "dict", priority |-> 1, keywords |-> <<K_Shi>>],
      [shape |-> "dict", priority |-> 2, keywords |-> <<K_gu>>],
      [shape |-> "dict", priority |-> 2, keywords |-> <<K_Shi>>],
      [shape |-> "list", keywords |-> <<K_gu>>],
      [shape |-> "list", keywords |-> <<K_Shi>>] }

\* keyword_rules: category -> rule data; "Other" is not a valid category
KeywordRuleItems ==
    { [key |-> c, category |-> c, rule_data |-> d] :
      c \in {"GuShi", "YuLe", "Other"}, d \in RuleData }

SourceDefaultItems ==
    { [key |-> P_host, val |-> c] : c \in {"ChanJing", "Other"} }
    \cup { [key |-> P_path, val |-> c] : c \in {"SheHui", "Other"} }

RssMappings ==
    { <<>>, <<[key |-> "Finance", val |-> "FangShi"]>>, <<[key |-> "Finance", val |-> "Other"]>> }

\* the rules dictionary, with and without a default_category
RuleSets ==
    { [rss_to_target_mapping |-> m, keyword_rules |-> k, source_defaults |-> d] :
      m \in RssMappings, k \in ItemLists(KeywordRuleItems, MaxKeywordRules),
      d \in ItemLists(SourceDefaultItems, MaxSourceDefaults) }
    \cup
    { [rss_to_target_mapping |-> m, keyword_rules |-> k, source_defaults |-> d,
       default_category |-> c] :
      m \in RssMappings, k \in ItemLists(KeywordRuleItems, MaxKeywordRules),
      d \in ItemLists(SourceDefaultItems, MaxSourceDefaults), c \in {"ShengHuo", "Other"} }

ClArticle(lang, rss, title, description, link) ==
    [title |-> title, link |-> link, published |-> [ts |-> 1, aware |-> TRUE],
     source_name |-> <<"A">>, language |-> lang, tab |-> T_zh_news, rss_category |-> rss,
     guid |-> link, description |-> description, final_category |-> "None"]

\* zh records: the text holds both keywords, one, or none; the link holds both
\* patterns, one, or none.  Records of another language: only rssCategory is read.
ClArticles ==
    { ClArticle(<<"z", "h">>, rss, t[1], t[2], l) :
      rss \in {"Finance", ""},
      t \in { << <<"G", "u">>, <<"s", "h", "i">> >>, << <<"G", "u">>, <<>> >>, << <<"x">>, <<>> >> },
      l \in {LinkA, LinkB, LinkN} }
    \cup { ClArticle(<<"e", "n">>, rss, <<"G", "u">>, <<>>, LinkA) : rss \in {"Finance", ""} }

\* Classifier(rules)
NewClassifier ==
    /\ cl_pc = "idle"
    /\ \E rules \in RuleSets : cl_self' = ClassifierOf(rules)
    /\ cl_pc' = "ready"
    /\ UNCHANGED <<cl_article, cl_keyword_match, cl_result>>
    /\ UNCHANGED <<dd_vars, ca_vars, sel_vars, nu_vars, ne_vars,
                 gg_vars, pd_vars, na_vars, ff_vars>>

\* classifier.classify(article)
Classify ==
    /\ cl_pc = "ready"
    /\ \E article \in ClArticles :
           /\ cl_article' = article
           /\ LET r == classify(cl_self, article)
              IN  /\ cl_result' = r.result
                  /\ cl_keyword_match' = r.keyword_match
    /\ cl_pc' = "returned"
    /\ UNCHANGED cl_self
    /\ UNCHANGED <<dd_vars, ca_vars, sel_vars, nu_vars, ne_vars,
                 gg_vars, pd_vars, na_vars, ff_vars>>

ClassifyInit ==
    /\ articles = <<>>
    /\ stage1_results = <<>>
    /\ stage2_results = <<>>
    /\ final_results = <<>>
    /\ dd_pc = "idle"
    /\ dd_exc = "none"
    /\ dd_second_input = <<>>
    /\ dd_second_result = [final |-> <<>>, exc |-> "none"]
    /\ dd_second_pc = "idle"
    /\ cl_self = <<>>
    /\ cl_article = <<>>
    /\ cl_keyword_match = "unset"
    /\ cl_result = ""
    /\ cl_pc = "idle"
    /\ CaIdle /\ SelIdle /\ NuIdle /\ NeIdle
    /\ GgIdle /\ PdIdle /\ NaIdle /\ FfIdle

ClassifyNext ==
    \/ NewClassifier
    \/ Classify

SpecClassify == ClassifyInit /\ [][ClassifyNext]_vars

(***************************************************************************)
(* Properties of Classifier.classify                                       *)
(***************************************************************************)
IsZh(a) == a.language = <<"z", "h">>
ClText(a) == Lower(a.title \o <<" ">> \o a.description)
RulePriority(item) ==
    IF item.rule_data.shape = "dict" /\ "priority" \in DOMAIN item.rule_data
    THEN item.rule_data.priority ELSE 99
RuleKeywords(item) == item.rule_data.keywords

\* the keyword rules with a valid category and a keyword in the text of a
MatchingRules(self, a) ==
    { i \in DOMAIN self.keyword_rules :
        /\ self.keyword_rules[i].category \in VALID_CATEGORIES
        /\ \E k \in DOMAIN RuleKeywords(self.keyword_rules[i]) :
               Contains(ClText(a), Lower(RuleKeywords(self.keyword_rules[i])[k])) }

\* the source-default patterns with a valid category that occur in the link of a
MatchingDefaults(self, a) ==
    { i \in DOMAIN self.source_defaults :
        /\ Contains(a.link, self.source_defaults[i].key)
        /\ self.source_defaults[i].val \in VALID_CATEGORIES }

MappingHits(self, a) ==
    { i \in DOMAIN self.rss_mapping :
        /\ self.rss_mapping[i].key = a.rss_category
        /\ self.rss_mapping[i].val \in VALID_CATEGORIES }

Least(S) == CHOOSE i \in S : \A j \in S : i <= j

\* C7: for a zh record the first of four stages that matches decides: the valid
\* mapped value of rssCategory; else the category of a valid keyword rule with a
\* keyword in the lowercased title+description; else the category of the first
\* valid source-default pattern occurring in link; else the default category.
C7_CascadeOrder ==
    (cl_pc = "returned" /\ IsZh(cl_article)) =>
        IF MappingHits(cl_self, cl_article) # {}
        THEN \E i \in MappingHits(cl_self, cl_article) : cl_result = cl_self.rss_mapping[i].val
        ELSE IF MatchingRules(cl_self, cl_article) # {}
        THEN \E i \in MatchingRules(cl_self, cl_article) :
                 cl_result = cl_self.keyword_rules[i].category
        ELSE IF MatchingDefaults(cl_self, cl_article) # {}
        THEN cl_result = cl_self.source_defaults[Least(MatchingDefaults(cl_self, cl_article))].val
        ELSE cl_result = cl_self.default_category

\* a keyword rule decided although a source default with another valid category matched
C7_Witness ==
    /\ cl_pc = "returned"
    /\ IsZh(cl_article)
    /\ MappingHits(cl_self, cl_article) = {}
    /\ MatchingRules(cl_self, cl_article) # {}
    /\ MatchingDefaults(cl_self, cl_article) # {}
    /\ \A i \in MatchingDefaults(cl_self, cl_article) : cl_self.source_defaults[i].val # cl_result
    /\ \E i \in MatchingRules(cl_self, cl_article) : cl_result = cl_self.keyword_rules[i].category

\* C8: the keyword stage returns the category of the matching valid rule with the
\* smallest priority number (a bare keyword list counts as 99), the one configured
\* first among equal priorities, and nothing when no valid rule matches.
C8_KeywordPriority ==
    cl_keyword_match # "unset" =>
        LET m == MatchingRules(cl_self, cl_article)
            Before(i, j) ==
                \/ RulePriority(cl_self.keyword_rules[i]) < RulePriority(cl_self.keyword_rules[j])
                \/ /\ RulePriority(cl_self.keyword_rules[i]) = RulePriority(cl_self.keyword_rules[j])
                   /\ i <= j
        IN  IF m = {} THEN cl_keyword_match = "None"
            ELSE \E i \in m : /\ \A j \in m : Before(i, j)
                              /\ cl_keyword_match = cl_self.keyword_rules[i].category

\* two valid rules matched and the one configured second, of smaller priority number, won
C8_Witness ==
    /\ cl_keyword_match # "unset"
    /\ Len(cl_self.keyword_rules) = 2
    /\ MatchingRules(cl_self, cl_article) = {1, 2}
    /\ RulePriority(cl_self.keyword_rules[2]) < RulePriority(cl_self.keyword_rules[1])
    /\ cl_keyword_match = cl_self.keyword_rules[2].category

\* two valid rules of equal priority matched and the one configured first won
C8_WitnessTie ==
    /\ cl_keyword_match # "unset"
    /\ Len(cl_self.keyword_rules) = 2
    /\ MatchingRules(cl_self, cl_article) = {1, 2}
    /\ RulePriority(cl_self.keyword_rules[2]) = RulePriority(cl_self.keyword_rules[1])
    /\ cl_self.keyword_rules[1].rule_data.shape = "list"
    /\ cl_keyword_match = cl_self.keyword_rules[1].category

\* C9: classify returns one of the nine valid categories for every zh record and
\* every rule set, and the rssCategory unchanged for every other record.
C9_OutputClosed ==
    cl_pc = "returned" =>
        /\ IsZh(cl_article) => cl_result \in VALID_CATEGORIES
        /\ ~IsZh(cl_article) => cl_result = cl_article.rss_category

RemoveAt(q, i) == SubSeq(q, 1, i - 1) \o SubSeq(q, i + 1, Len(q))

\* C10: a mapping entry, keyword rule or source-default pattern whose category is
\* not valid is a non-match: for a zh record classify returns what it returns
\* when that entry is removed from the rule set.
C10_InvalidEntryIsNonMatch ==
    (cl_pc = "returned" /\ IsZh(cl_article)) =>
        /\ \A i \in DOMAIN cl_self.rss_mapping :
               cl_self.rss_mapping[i].val \notin VALID_CATEGORIES =>
                   classify([cl_self EXCEPT !.rss_mapping = RemoveAt(@, i)], cl_article).result
                       = cl_result
        /\ \A i \in DOMAIN cl_self.keyword_rules :
               cl_self.keyword_rules[i].category \notin VALID_CATEGORIES =>
                   classify([cl_self EXCEPT !.keyword_rules = RemoveAt(@, i)], cl_article).result
                       = cl_result
        /\ \A i \in DOMAIN cl_self.source_defaults :
               cl_self.source_defaults[i].val \notin VALID_CATEGORIES =>
                   classify([cl_self EXCEPT !.source_defaults = RemoveAt(@, i)], cl_article).result
                       = cl_result

\* a keyword rule with an invalid category matched first in scan order, and the
\* valid rule after it decided
C10_Witness ==
    /\ cl_pc = "returned"
    /\ IsZh(cl_article)
    /\ Len(cl_self.keyword_rules) = 2
    /\ \E i \in {1, 2} :
           /\ cl_self.keyword_rules[i].category \notin VALID_CATEGORIES
           /\ RulePriority(cl_self.keyword_rules[i]) < RulePriority(cl_self.keyword_rules[3 - i])
           /\ \E k \in DOMAIN RuleKeywords(cl_self.keyword_rules[i]) :
                  Contains(ClText(cl_article), Lower(RuleKeywords(cl_self.keyword_rules[i])[k]))
           /\ cl_keyword_match = cl_self.keyword_rules[3 - i].category

(***************************************************************************)
(* selector.py: the category tables                                        *)
(***************************************************************************)
T_ja_news == <<"j", "a", "_", "n", "e", "w", "s">>
T_ko_news == <<"k", "o", "_", "n", "e", "w", "s">>

\* TAB_CATEGORIES['zh_news'], in display order
ZhCategories ==
    <<"TouTiaoXinWen", "ChanJing", "GuShi", "QuanQiuGuoJiXinWen",
      "SheHui", "ShengHuo", "YuLe", "YunDong", "FangShi">>

\* TAB_CATEGORIES['en_news']
EnCategories ==
    <<"Startup", "Tech News", "BBC Top Stories", "BBC World", "BBC Business",
      "BBC Education", "BBC Technology", "BBC Health", "BBC Science & Environment">>

\* TAB_CATEGORIES['ja_news'], transliterated (headlines, world, politics, sports,
\* business, culture, entertainment); sports and entertainment are the zh strings
JaCategories ==
    <<"TouTiao", "GuoJi", "ZhengZhi", "YunDong", "ShangYe", "WenHua", "YuLe">>

\* TAB_CATEGORIES.keys(), in order
TabOrder == <<T_zh_news, T_en_news, T_ja_news>>

\* TAB_CATEGORIES.get(tab_id, [])
TAB_CATEGORIES(tab_id) ==
    IF tab_id = T_zh_news THEN ZhCategories
    ELSE IF tab_id = T_en_news THEN EnCategories
    ELSE IF tab_id = T_ja_news THEN JaCategories
    ELSE <<>>

(***************************************************************************)
(* classifier.py: classify_articles                                        *)
(***************************************************************************)
\* variant: records of another language are left as they came
ClassifyOneZhOnly(classifier, article) ==
    IF article.language = <<"z", "h">>
    THEN [article |-> [article EXCEPT !.final_category = classify(classifier, article).result],
          writes |-> <<"final_category">>]
    ELSE [article |-> article, writes |-> <<>>]

\* the body of the loop: the record after it, and the fields it assigned
ClassifyOne(classifier, article) ==
    IF article.language = <<"z", "h">>
    THEN [article |-> [article EXCEPT !.final_category = classify(classifier, article).result],
          writes |-> <<"final_category">>]
    ELSE [article |-> [article EXCEPT !.final_category = article.rss_category],
          writes |-> <<"final_category">>]

\* classify_articles: the list it returns (the argument's records, in place) and
\* the assignments made to each record
classify_articles(arts, rules) ==
    LET classifier == ClassifierOf(rules)
    IN  [returned |-> [i \in DOMAIN arts |-> ClassifyOne(classifier, arts[i]).article],
         writes   |-> [i \in DOMAIN arts |-> ClassifyOne(classifier, arts[i]).writes]]

(***************************************************************************)
(* The lists and rule sets given to classify_articles                      *)
(***************************************************************************)
MaxCaLen == 2
MaxCaRules == 1

CaArticle(lang, tab, rss, title, link) ==
    [title |-> title, link |-> link, published |-> [ts |-> 1, aware |-> TRUE],
     source_name |-> <<"A">>, language |-> lang, tab |-> tab, rss_category |-> rss,
     guid |-> link, description |-> <<>>, final_category |-> "None"]

\* records as normalize_all leaves them (final_category None), of the three
\* configured tabs and of a tab and language outside the configuration
CaArticles ==
    { CaArticle(<<"z", "h">>, T_zh_news, "Finance", <<"G", "u">>, LinkA),
      CaArticle(<<"z", "h">>, T_zh_news, "", <<"G", "u">>, LinkA),
      CaArticle(<<"z", "h">>, T_zh_news, "", <<"x">>, LinkA),
      CaArticle(<<"z", "h">>, T_zh_news, "", <<"x">>, LinkN),
      CaArticle(<<"e", "n">>, T_en_news, "Startup", <<"G", "u">>, LinkA),
      CaArticle(<<"e", "n">>, T_en_news, "Tech", <<"G", "u">>, LinkA),
      CaArticle(<<"e", "n">>, T_en_news, "", <<"G", "u">>, LinkA),
      CaArticle(<<"j", "a">>, T_ja_news, "YunDong", <<"G", "u">>, LinkA),
      CaArticle(<<"j", "a">>, T_ja_news, "GuShi", <<"G", "u">>, LinkA),
      CaArticle(<<"k", "o">>, T_ko_news, "GuShi", <<"G", "u">>, LinkA) }

\* rules dictionaries with at most MaxCaRules keyword rules and source defaults
CaRuleSets ==
    { [rss_to_target_mapping |-> m, keyword_rules |-> k, source_defaults |-> d] :
      m \in RssMappings, k \in ItemLists(KeywordRuleItems, MaxCaRules),
      d \in ItemLists(SourceDefaultItems, MaxCaRules) }
    \cup
    { [rss_to_target_mapping |-> m, keyword_rules |-> k, source_defaults |-> d,
       default_category |-> c] :
      m \in RssMappings, k \in ItemLists(KeywordRuleItems, MaxCaRules),
      d \in ItemLists(SourceDefaultItems, MaxCaRules), c \in {"ShengHuo", "Other"} }

\* main(): one more deduplicated record is in the list classify_articles will get
CaAddArticle ==
    /\ ca_pc = "call"
    /\ Len(ca_articles) < MaxCaLen
    /\ \E a \in CaArticles : ca_articles' = Append(ca_articles, a)
    /\ UNCHANGED <<ca_rules, ca_writes, ca_returned, ca_pc>>
    /\ UNCHANGED <<dd_vars, cl_vars, sel_vars, nu_vars, ne_vars,
                 gg_vars, pd_vars, na_vars, ff_vars>>

\* classify_articles(articles, rules)
ClassifyArticles ==
    /\ ca_pc = "call"
    /\ \E rules \in CaRuleSets :
           LET r == classify_articles(ca_articles, rules)
           IN  /\ ca_rules' = rules
               /\ ca_returned' = r.returned
               /\ ca_writes' = r.writes
    /\ ca_pc' = "returned"
    /\ UNCHANGED ca_articles
    /\ UNCHANGED <<dd_vars, cl_vars, sel_vars, nu_vars, ne_vars,
                 gg_vars, pd_vars, na_vars, ff_vars>>

ClassifyArticlesInit ==
    /\ DdIdle /\ ClIdle /\ SelIdle /\ NuIdle /\ NeIdle
    /\ GgIdle /\ PdIdle /\ NaIdle /\ FfIdle
    /\ ca_articles = <<>>
    /\ ca_rules = <<>>
    /\ ca_writes = <<>>
    /\ ca_returned = <<>>
    /\ ca_pc = "call"

ClassifyArticlesNext ==
    \/ CaAddArticle
    \/ ClassifyArticles

SpecClassifyArticles == ClassifyArticlesInit /\ [][ClassifyArticlesNext]_vars

(***************************************************************************)
(* Properties of classify_articles                                         *)
(***************************************************************************)
\* finalCategory is unset: None, or the empty text
Unset(category) == category = "None" \/ category = ""

\* C11: after classify_articles every record's finalCategory is unset or a member
\* of the category list of the record's tab.
C11_FinalCategoryInTabList ==
    ca_pc = "returned" =>
        \A i \in DOMAIN ca_returned :
            \/ Unset(ca_returned[i].final_category)
            \/ ca_returned[i].final_category \in Range(TAB_CATEGORIES(ca_returned[i].tab))

\* a zh record left classify_articles with the configured default category,
\* which is none of the nine
C11_DefaultOutsideList ==
    /\ ca_pc = "returned"
    /\ \E i \in DOMAIN ca_returned :
           /\ IsZh(ca_returned[i])
           /\ ca_returned[i].final_category = ClassifierOf(ca_rules).default_category
           /\ ca_returned[i].final_category \notin Range(ZhCategories)

SameButFinalCategory(a, b) == [a EXCEPT !.final_category = "None"] = [b EXCEPT !.final_category = "None"]

BbcCategories ==
    {"BBC Top Stories", "BBC World", "BBC Business", "BBC Education",
     "BBC Technology", "BBC Health", "BBC Science & Environment"}

\* variant: one capacity for the whole tab
get_items_per_categoryTabWide(tab, category) == 8

\* get_items_per_category: ITEMS_PER_CATEGORY is 8 for zh_news and ja_news, a dict
\* category -> count for en_news; 8 for a tab or a category it does not hold
get_items_per_category(tab, category) ==
    IF tab = T_en_news
    THEN IF category \in {"Startup", "Tech News"} THEN 8
         ELSE IF category \in BbcCategories THEN 6
         ELSE 8
    ELSE 8

\* x or ''
OrEmpty(x) == IF x = "None" THEN "" ELSE x

\* variant: no legacy aliases in en_news
map_to_display_categoryNoAlias(article) ==
    LET tab == article.tab
        rss_cat == OrEmpty(article.rss_category)
        final_cat == OrEmpty(article.final_category)
    IN  IF tab = T_zh_news
        THEN IF final_cat \in Range(TAB_CATEGORIES(T_zh_news)) THEN final_cat ELSE "TouTiaoXinWen"
        ELSE IF tab = T_en_news
        THEN IF rss_cat \in Range(TAB_CATEGORIES(T_en_news)) THEN rss_cat ELSE "Tech News"
        ELSE IF tab = T_ja_news
        THEN IF rss_cat \in Range(TAB_CATEGORIES(T_ja_news)) THEN rss_cat ELSE "TouTiao"
        ELSE rss_cat

\* variant: no default category in zh_news
map_to_display_categoryNoDefault(article) ==
    LET tab == article.tab
        rss_cat == OrEmpty(article.rss_category)
        final_cat == OrEmpty(article.final_category)
    IN  IF tab = T_zh_news
        THEN final_cat
        ELSE IF tab = T_en_news
        THEN IF rss_cat \in Range(TAB_CATEGORIES(T_en_news)) THEN rss_cat
             ELSE IF rss_cat = "Tech" THEN "Tech News"
             ELSE IF rss_cat = "Tech Media" THEN "Tech News"
             ELSE IF rss_cat = "BBC" THEN "BBC Top Stories"
             ELSE "Tech News"
        ELSE IF tab = T_ja_news
        THEN IF rss_cat \in Range(TAB_CATEGORIES(T_ja_news)) THEN rss_cat ELSE "TouTiao"
        ELSE rss_cat

\* map_to_display_category
map_to_display_category(article) ==
    LET tab == article.tab
        rss_cat == OrEmpty(article.rss_category)
        final_cat == OrEmpty(article.final_category)
    IN  IF tab = T_zh_news
        THEN IF final_cat \in Range(TAB_CATEGORIES(T_zh_news)) THEN final_cat ELSE "TouTiaoXinWen"
        ELSE IF tab = T_en_news
        THEN IF rss_cat \in Range(TAB_CATEGORIES(T_en_news)) THEN rss_cat
             ELSE IF rss_cat = "Tech" THEN "Tech News"
             ELSE IF rss_cat = "Tech Media" THEN "Tech News"
             ELSE IF rss_cat = "BBC" THEN "BBC Top Stories"
             ELSE "Tech News"
        ELSE IF tab = T_ja_news
        THEN IF rss_cat \in Range(TAB_CATEGORIES(T_ja_news)) THEN rss_cat ELSE "TouTiao"
        ELSE rss_cat

\* variant: the records stay in input order
InputOrder(list) == list

RECURSIVE SortNewestFirstReversingTies(_)
\* variant: an ascending stable sort, reversed (equal publishedAt in reverse input order)
SortNewestFirstReversingTies(list) ==
    IF list = <<>> THEN <<>>
    ELSE LET sorted == SortNewestFirstReversingTies(SubSeq(list, 1, Len(list) - 1))
             last == list[Len(list)]
             n == Cardinality({i \in DOMAIN sorted : sorted[i].published.ts > last.published.ts})
         IN  SubSeq(sorted, 1, n) \o <<last>> \o SubSeq(sorted, n + 1, Len(sorted))

RECURSIVE SortNewestFirst(_)
\* sorted(cat_articles, key=lambda a: a.published, reverse=True): stable, so
\* records of equal publishedAt keep their order
SortNewestFirst(list) ==
    IF list = <<>> THEN <<>>
    ELSE LET sorted == SortNewestFirst(SubSeq(list, 1, Len(list) - 1))
             last == list[Len(list)]
             n == Cardinality({i \in DOMAIN sorted : sorted[i].published.ts >= last.published.ts})
         IN  SubSeq(sorted, 1, n) \o <<last>> \o SubSeq(sorted, n + 1, Len(sorted))

\* sorted_articles[:n]
Take(list, n) == SubSeq(list, 1, IF n < Len(list) THEN n ELSE Len(list))

NonEmptyVal(e) == e.val # <<>>

\* variant: the argument is the capacity of every bucket
BucketCapacityFromArgument(tab_id, category, items_per_category) == items_per_category

\* n = get_items_per_category(tab_id, category): the parameter items_per_category
\* of select_by_category is in scope and is not read
BucketCapacity(tab_id, category, items_per_category) ==
    get_items_per_category(tab_id, category)

\* the loop over categories_order: tab_result for the records of one tab
TabResult(tab_id, tab_items, items_per_category) ==
    LET categories_order == TAB_CATEGORIES(tab_id)
        Group(category) ==
            LET InGroup(a) == map_to_display_category(a) = category
            IN  SelectSeq(tab_items, InGroup)
        selected ==
            [k \in DOMAIN categories_order |->
                [key |-> categories_order[k],
                 val |-> Take(SortNewestFirst(Group(categories_order[k])),
                              BucketCapacity(tab_id, categories_order[k],
                                             items_per_category))]]
    IN  SelectSeq(selected, NonEmptyVal)

RECURSIVE FirstSeenTabs(_, _)
\* the keys of tab_articles, in first-insertion order
FirstSeenTabs(arts, seen) ==
    IF arts = <<>> THEN seen
    ELSE IF \E k \in DOMAIN seen : seen[k] = arts[1].tab
    THEN FirstSeenTabs(Tail(arts), seen)
    ELSE FirstSeenTabs(Tail(arts), Append(seen, arts[1].tab))

IsConfigured(tab_id) == TAB_CATEGORIES(tab_id) # <<>>

\* result after the loop over tab_articles.items()
InputTabsResult(arts, items_per_category) ==
    LET tabs == SelectSeq(FirstSeenTabs(arts, <<>>), IsConfigured)
    IN  [k \in DOMAIN tabs |->
            LET OfTab(a) == a.tab = tabs[k]
            IN  [key |-> tabs[k], val |-> TabResult(tabs[k], SelectSeq(arts, OfTab),
                                                 items_per_category)]]

\* variant: no entry for the tabs without records
select_by_categoryInputTabsOnly(arts, items_per_category) ==
    InputTabsResult(arts, items_per_category)

\* select_by_category(articles, items_per_category): tab -> category -> list,
\* the dicts in insertion order
select_by_category(arts, items_per_category) ==
    LET result == InputTabsResult(arts, items_per_category)
        Missing(tab_id) == \A k \in DOMAIN result : result[k].key # tab_id
        missing == SelectSeq(TabOrder, Missing)
    IN  result \o [k \in DOMAIN missing |-> [key |-> missing[k], val |-> <<>>]]

(***************************************************************************)
(* The lists given to select_by_category                                   *)
(***************************************************************************)
MaxSelLen == 3
MaxRunLen == 9

\* (tab, language, rss_category, final_category) as classify_articles leaves them
SelKind(tab, lang, rss, final) ==
    [tab |-> tab, language |-> lang, rss_category |-> rss, final_category |-> final]

\* kinds that fill one bucket: a zh category, an en category of 8 and a BBC category
RunKinds ==
    { SelKind(T_zh_news, <<"z", "h">>, "", "GuShi"),
      SelKind(T_en_news, <<"e", "n">>, "Startup", "Startup"),
      SelKind(T_en_news, <<"e", "n">>, "BBC World", "BBC World") }

SelKinds ==
    RunKinds
    \cup { SelKind(T_zh_news, <<"z", "h">>, "", f) : f \in {"YunDong", "Other", "None"} }
    \cup { SelKind(T_en_news, <<"e", "n">>, c, c) : c \in {"Tech", "BBC", "Other", ""} }
    \cup { SelKind(T_ja_news, <<"j", "a">>, c, c) : c \in {"YunDong", "GuShi"} }
    \cup { SelKind(T_ko_news, <<"k", "o">>, "GuShi", "GuShi") }

PositionMarks == <<"1", "2", "3", "4", "5", "6", "7", "8", "9", "a", "b", "c">>

\* the record at position n of the list: deduplicate left the guids distinct
SelArticle(kind, p, n) ==
    [title |-> <<"t">>, link |-> LinkA, published |-> p, source_name |-> <<"A">>,
     language |-> kind.language, tab |-> kind.tab, rss_category |-> kind.rss_category,
     guid |-> <<"g", PositionMarks[n]>>, description |-> <<>>,
     final_category |-> kind.final_category]

KindOf(a) == SelKind(a.tab, a.language, a.rss_category, a.final_category)

\* main(): one more classified record is in the list select_by_category will get;
\* the lists longer than MaxSelLen are runs of one kind, which fill a bucket
\* beyond its capacity
SelAddArticle ==
    /\ sel_pc = "call"
    /\ Len(sel_articles) < MaxRunLen
    /\ \E kind \in SelKinds, p \in Published :
           /\ \/ Len(sel_articles) < MaxSelLen
              \/ /\ kind \in RunKinds
                 /\ \A i \in DOMAIN sel_articles : KindOf(sel_articles[i]) = kind
           /\ sel_articles' = Append(sel_articles, SelArticle(kind, p, Len(sel_articles) + 1))
    /\ UNCHANGED <<sel_result, sel_pc, sel_items_per_category,
                   sel_other_items, sel_other_result>>
    /\ UNCHANGED <<dd_vars, cl_vars, ca_vars, nu_vars, ne_vars,
                 gg_vars, pd_vars, na_vars, ff_vars>>

\* select_by_category(articles, items_per_category)
SelectByCategory ==
    /\ sel_pc = "call"
    /\ sel_result' = select_by_category(sel_articles, sel_items_per_category)
    /\ sel_pc' = "returned"
    /\ UNCHANGED <<sel_articles, sel_items_per_category, sel_other_items, sel_other_result>>
    /\ UNCHANGED <<dd_vars, cl_vars, ca_vars, nu_vars, ne_vars,
                 gg_vars, pd_vars, na_vars, ff_vars>>

SelectInit ==
    /\ DdIdle /\ ClIdle /\ CaIdle /\ NuIdle /\ NeIdle
    /\ GgIdle /\ PdIdle /\ NaIdle /\ FfIdle
    /\ sel_articles = <<>>
    /\ sel_result = <<>>
    /\ sel_pc = "call"
    /\ sel_items_per_category = 8
    /\ sel_other_items = 0
    /\ sel_other_result = <<>>

SelectNext ==
    \/ SelAddArticle
    \/ SelectByCategory

SpecSelect == SelectInit /\ [][SelectNext]_vars

(***************************************************************************)
(* select_by_category called with another items_per_category               *)
(***************************************************************************)
\* the values of the argument: below, at and above the capacities of the table
ItemsPerCategoryChoices == {1, 8, 12}

\* a second call that differs from the first in items_per_category only
SelectByCategoryAgain ==
    /\ sel_pc = "returned"
    /\ \E items_per_category \in ItemsPerCategoryChoices \ {sel_items_per_category} :
           /\ sel_other_items' = items_per_category
           /\ sel_other_result' = select_by_category(sel_articles, items_per_category)
    /\ sel_pc' = "repeated"
    /\ UNCHANGED <<sel_articles, sel_result, sel_items_per_category>>
    /\ UNCHANGED <<dd_vars, cl_vars, ca_vars, nu_vars, ne_vars,
                 gg_vars, pd_vars, na_vars, ff_vars>>

\* the first call is made with any of the values
SelectTwiceInit ==
    /\ DdIdle /\ ClIdle /\ CaIdle /\ NuIdle /\ NeIdle
    /\ GgIdle /\ PdIdle /\ NaIdle /\ FfIdle
    /\ sel_articles = <<>>
    /\ sel_result = <<>>
    /\ sel_pc = "call"
    /\ sel_items_per_category \in ItemsPerCategoryChoices
    /\ sel_other_items = 0
    /\ sel_other_result = <<>>

SelectTwiceNext ==
    \/ SelAddArticle
    \/ SelectByCategory
    \/ SelectByCategoryAgain

SpecSelectTwice == SelectTwiceInit /\ [][SelectTwiceNext]_vars

(***************************************************************************)
(* Properties of select_by_category                                        *)
(***************************************************************************)
\* the positions of the input records of tab that resolve to category
ResolvingTo(tab, category) ==
    { i \in DOMAIN sel_articles :
        sel_articles[i].tab = tab /\ map_to_display_category(sel_articles[i]) = category }

\* the capacities as the configuration states them
ConfiguredCapacity(tab, category) ==
    IF tab = T_en_news /\ category \in BbcCategories THEN 6 ELSE 8

Min(a, b) == IF a < b THEN a ELSE b

\* the position in the input list of a record of the result (guids are distinct)
InputIndex(a) == CHOOSE i \in DOMAIN sel_articles : sel_articles[i] = a

\* C13: every (tab, category) bucket of the result holds at most the configured
\* capacity: 8 in zh_news and ja_news and for Startup and Tech News, 6 for a BBC
\* category.
C13_BucketWithinCapacity ==
    sel_pc = "returned" =>
        \A k \in DOMAIN sel_result : \A j \in DOMAIN sel_result[k].val :
            Len(sel_result[k].val[j].val)
                <= ConfiguredCapacity(sel_result[k].key, sel_result[k].val[j].key)

\* seven records resolved to a BBC category and its bucket holds six
C13_Witness ==
    /\ sel_pc = "returned"
    /\ Cardinality(ResolvingTo(T_en_news, "BBC World")) = 7
    /\ \E k \in DOMAIN sel_result : \E j \in DOMAIN sel_result[k].val :
           /\ sel_result[k].key = T_en_news
           /\ sel_result[k].val[j].key = "BBC World"
           /\ Len(sel_result[k].val[j].val) = 6

\* C14: a bucket holds exactly min(capacity, n) of the n input records of its tab
\* that resolve to its category, and no such record left out is strictly later
\* than a record in the bucket.
C14_MostRecentKept ==
    sel_pc = "returned" =>
        \A k \in DOMAIN sel_result : \A j \in DOMAIN sel_result[k].val :
            LET tab == sel_result[k].key
                category == sel_result[k].val[j].key
                bucket == sel_result[k].val[j].val
                group == ResolvingTo(tab, category)
            IN  /\ Len(bucket) = Min(ConfiguredCapacity(tab, category), Cardinality(group))
                /\ \A b \in DOMAIN bucket : \E i \in group : sel_articles[i] = bucket[b]
                /\ \A b1, b2 \in DOMAIN bucket : b1 # b2 => bucket[b1] # bucket[b2]
                /\ \A i \in group :
                       (\A b \in DOMAIN bucket : bucket[b] # sel_articles[i]) =>
                           \A b \in DOMAIN bucket :
                               sel_articles[i].published.ts <= bucket[b].published.ts

\* nine records of one zh category: an early one is left out for a later, newer one
C14_Witness ==
    /\ sel_pc = "returned"
    /\ Cardinality(ResolvingTo(T_zh_news, "GuShi")) = 9
    /\ \E k \in DOMAIN sel_result : \E j \in DOMAIN sel_result[k].val :
           /\ sel_result[k].key = T_zh_news
           /\ sel_result[k].val[j].key = "GuShi"
           /\ Len(sel_result[k].val[j].val) = 8
           /\ \A b \in DOMAIN sel_result[k].val[j].val :
                  sel_result[k].val[j].val[b] # sel_articles[1]
           /\ \E b \in DOMAIN sel_result[k].val[j].val :
                  sel_result[k].val[j].val[b] = sel_articles[9]

\* C15: within a bucket publishedAt never increases from one record to the next,
\* and records of equal publishedAt are in their input order.
C15_NewestFirstStable ==
    sel_pc = "returned" =>
        \A k \in DOMAIN sel_result : \A j \in DOMAIN sel_result[k].val :
            LET bucket == sel_result[k].val[j].val
            IN  \A b \in 1..(Len(bucket) - 1) :
                    /\ bucket[b].published.ts >= bucket[b + 1].published.ts
                    /\ bucket[b].published.ts = bucket[b + 1].published.ts =>
                           InputIndex(bucket[b]) < InputIndex(bucket[b + 1])

\* a bucket in which the sort moved a record forward and kept two equal ones in order
C15_Witness ==
    /\ sel_pc = "returned"
    /\ \E k \in DOMAIN sel_result : \E j \in DOMAIN sel_result[k].val :
           LET bucket == sel_result[k].val[j].val
           IN  /\ Len(bucket) >= 3
               /\ \E b \in 1..(Len(bucket) - 1) :
                      InputIndex(bucket[b]) > InputIndex(bucket[b + 1])
               /\ \E b \in 1..(Len(bucket) - 1) :
                      bucket[b].published.ts = bucket[b + 1].published.ts

\* C16: the keys of the result are exactly the three configured tabs; a record of
\* another tab is in no bucket; a configured tab without records maps to an empty
\* map; no category maps to an empty list; and a category is a key of its tab
\* exactly when an input record of the tab resolves to it.
C16_TabsAlwaysPresent ==
    sel_pc = "returned" =>
        /\ {sel_result[k].key : k \in DOMAIN sel_result} = {T_zh_news, T_en_news, T_ja_news}
        /\ \A k1, k2 \in DOMAIN sel_result : k1 # k2 => sel_result[k1].key # sel_result[k2].key
        /\ \A k \in DOMAIN sel_result :
               LET tab == sel_result[k].key
                   categories == sel_result[k].val
               IN  /\ (\A i \in DOMAIN sel_articles : sel_articles[i].tab # tab) => categories = <<>>
                   /\ \A j \in DOMAIN categories :
                          /\ categories[j].val # <<>>
                          /\ \A b \in DOMAIN categories[j].val : categories[j].val[b].tab = tab
                   /\ \A c \in Range(TAB_CATEGORIES(tab)) :
                          (\E j \in DOMAIN categories : categories[j].key = c)
                              <=> ResolvingTo(tab, c) # {}
                   /\ \A j \in DOMAIN categories : categories[j].key \in Range(TAB_CATEGORIES(tab))

\* a list with a zh record and a record of an unknown tab: the other two tabs
\* are present and empty
C16_Witness ==
    /\ sel_pc = "returned"
    /\ \E i \in DOMAIN sel_articles : sel_articles[i].tab = T_ko_news
    /\ \E i \in DOMAIN sel_articles : sel_articles[i].tab = T_zh_news
    /\ \A i \in DOMAIN sel_articles : sel_articles[i].tab \in {T_ko_news, T_zh_news}
    /\ \E k \in DOMAIN sel_result : sel_result[k].key = T_ja_news /\ sel_result[k].val = <<>>
    /\ \E k \in DOMAIN sel_result : sel_result[k].key = T_zh_news /\ sel_result[k].val # <<>>

\* the empty list gives the three tabs, each with an empty map
C16_WitnessEmpty ==
    /\ sel_pc = "returned"
    /\ sel_articles = <<>>
    /\ Len(sel_result) = 3

\* the display category as the claim describes it
DisplayCategoryStated(a) ==
    IF a.tab = T_zh_news
    THEN IF a.final_category \in VALID_CATEGORIES THEN a.final_category ELSE "TouTiaoXinWen"
    ELSE IF a.tab = T_en_news
    THEN IF a.rss_category \in Range(EnCategories) THEN a.rss_category
         ELSE IF a.rss_category \in {"Tech", "Tech Media"} THEN "Tech News"
         ELSE IF a.rss_category = "BBC" THEN "BBC Top Stories"
         ELSE "Tech News"
    ELSE IF a.tab = T_ja_news
    THEN IF a.rss_category \in Range(JaCategories) THEN a.rss_category ELSE "TouTiao"
    ELSE a.rss_category

\* the (tab, category) keys of the buckets that hold record a
BucketsOf(a) ==
    UNION { { <<sel_result[k].key, sel_result[k].val[j].key>> :
                j \in { n \in DOMAIN sel_result[k].val :
                           \E b \in DOMAIN sel_result[k].val[n].val :
                               sel_result[k].val[n].val[b] = a } } :
            k \in DOMAIN sel_result }

\* C17: a record is placed under the display category of its tab: finalCategory
\* or the default in zh_news, rssCategory or its legacy alias or Tech News in
\* en_news, rssCategory or the fallback in ja_news; a record whose resolved
\* category is not in its tab's list is in no bucket.
C17_DisplayCategory ==
    sel_pc = "returned" =>
        \A i \in DOMAIN sel_articles :
            LET a == sel_articles[i]
                c == DisplayCategoryStated(a)
            IN  /\ map_to_display_category(a) = c
                /\ BucketsOf(a) \subseteq {<<a.tab, c>>}
                /\ c \notin Range(TAB_CATEGORIES(a.tab)) => BucketsOf(a) = {}
                /\ (c \in Range(TAB_CATEGORIES(a.tab)) /\ Len(sel_articles) <= 6) =>
                       BucketsOf(a) = {<<a.tab, c>>}

\* an en record with the legacy label BBC is under BBC Top Stories, and a zh
\* record with a finalCategory outside the nine is under the default
C17_Witness ==
    /\ sel_pc = "returned"
    /\ \E i \in DOMAIN sel_articles :
           /\ sel_articles[i].tab = T_en_news
           /\ sel_articles[i].rss_category = "BBC"
           /\ BucketsOf(sel_articles[i]) = {<<T_en_news, "BBC Top Stories">>}
    /\ \E i \in DOMAIN sel_articles :
           /\ sel_articles[i].tab = T_zh_news
           /\ sel_articles[i].final_category = "Other"
           /\ BucketsOf(sel_articles[i]) = {<<T_zh_news, "TouTiaoXinWen">>}

ConfiguredTabs == {T_zh_news, T_en_news, T_ja_news}

RECURSIVE SumOfBuckets(_, _)
\* the sum over the categories of a tab of min(capacity, records resolved to it)
SumOfBuckets(tab, categories) ==
    IF categories = <<>> THEN 0
    ELSE Min(ConfiguredCapacity(tab, categories[1]),
             Cardinality(ResolvingTo(tab, categories[1])))
         + SumOfBuckets(tab, Tail(categories))

RECURSIVE SelectedIn(_)
\* the number of records in the buckets of one tab of the result
SelectedIn(categories) ==
    IF categories = <<>> THEN 0
    ELSE Len(categories[1].val) + SelectedIn(Tail(categories))

\* C29: a record of zh_news, en_news or ja_news resolves to a member of its
\* tab's category list whatever its rssCategory and finalCategory are, so it is
\* a candidate of exactly one bucket and is left out only when that bucket is
\* full; the number of records selected for a tab is the sum over its
\* categories of min(capacity, number of records resolved to the category).
C29_EveryRecordHasABucket ==
    sel_pc = "returned" =>
        /\ \A i \in DOMAIN sel_articles :
               LET a == sel_articles[i]
               IN  a.tab \in ConfiguredTabs =>
                       /\ map_to_display_category(a) \in Range(TAB_CATEGORIES(a.tab))
                       /\ Cardinality({ c \in Range(TAB_CATEGORIES(a.tab)) :
                                          i \in ResolvingTo(a.tab, c) }) = 1
                       /\ BucketsOf(a) \subseteq {<<a.tab, map_to_display_category(a)>>}
                       /\ BucketsOf(a) = {} =>
                              Cardinality(ResolvingTo(a.tab, map_to_display_category(a)))
                                  > ConfiguredCapacity(a.tab, map_to_display_category(a))
        /\ \A k \in DOMAIN sel_result :
               SelectedIn(sel_result[k].val)
                   = SumOfBuckets(sel_result[k].key, TAB_CATEGORIES(sel_result[k].key))

\* records whose labels are in no list (a zh finalCategory of None, an en
\* rssCategory that is empty, an unknown one) are all selected, under the defaults
C29_Witness ==
    /\ sel_pc = "returned"
    /\ Len(sel_articles) = 3
    /\ sel_articles[1].tab = T_zh_news /\ sel_articles[1].final_category = "None"
    /\ sel_articles[2].tab = T_en_news /\ sel_articles[2].rss_category = ""
    /\ sel_articles[3].tab = T_en_news /\ sel_articles[3].rss_category = "Other"
    /\ BucketsOf(sel_articles[1]) = {<<T_zh_news, "TouTiaoXinWen">>}
    /\ BucketsOf(sel_articles[2]) = {<<T_en_news, "Tech News">>}
    /\ BucketsOf(sel_articles[3]) = {<<T_en_news, "Tech News">>}
    /\ \E k \in DOMAIN sel_result :
           sel_result[k].key = T_en_news /\ SelectedIn(sel_result[k].val) = 2

\* C30: the argument items_per_category has no effect: two calls on one list that
\* differ only in items_per_category return equal results, and every bucket of
\* both holds min(capacity of the ITEMS_PER_CATEGORY table, records resolved to it).
C30_ArgumentHasNoEffect ==
    sel_pc = "repeated" =>
        /\ sel_other_items # sel_items_per_category
        /\ sel_other_result = sel_result
        /\ \A k \in DOMAIN sel_other_result : \A j \in DOMAIN sel_other_result[k].val :
               LET tab == sel_other_result[k].key
                   category == sel_other_result[k].val[j].key
               IN  Len(sel_other_result[k].val[j].val)
                       = Min(ConfiguredCapacity(tab, category),
                             Cardinality(ResolvingTo(tab, category)))

\* nine records of one BBC category, selected with items_per_category 1 and
\* with 12: six are kept both times
C30_Witness ==
    /\ sel_pc = "repeated"
    /\ Cardinality(ResolvingTo(T_en_news, "BBC World")) = 9
    /\ sel_items_per_category = 1
    /\ sel_other_items = 12
    /\ \E k \in DOMAIN sel_result : \E j \in DOMAIN sel_result[k].val :
           /\ sel_result[k].key = T_en_news
           /\ Len(sel_result[k].val[j].val) = 6
           /\ sel_other_result[k].val[j].val = sel_result[k].val[j].val

(***************************************************************************)
(* The URLs given to normalize_url                                         *)
(***************************************************************************)
\* the scheme part of the URLs of the model: none, lowercase, uppercase
UrlSchemes ==
    { <<>>,
      <<"h", "t", "t", "p", ":">>,
      <<"H", "T", "T", "P", ":">> }

\* the host part: none, lowercase, mixed case, and one urlsplit rejects
UrlNetlocs ==
    { <<>>,
      <<"/", "/", "x", ".", "c", "o">>,
      <<"/", "/", "X", ".", "c", "o">>,
      <<"/", "/", "[", "x">> }

\* the path part: empty, root, with trailing slashes, with path parameters
UrlPaths ==
    { <<>>,
      <<"/">>,
      <<"/", "a">>,
      <<"/", "a", "/">>,
      <<"/", "a", ";", "p">>,
      <<"/", "a", ";", "/">>,
      <<"/", "A", "/", "/">> }

\* the query part: tracking keys in both cases, other keys, a repeated key, a blank
\* value, escaped characters
UrlQueries ==
    { <<>>,
      <<"?", "b", "=", "1">>,
      <<"?", "u", "t", "m", "_", "s", "o", "u", "r", "c", "e", "=", "1">>,
      <<"?", "U", "T", "M", "_", "S", "o", "u", "r", "c", "e", "=", "1", "&", "b", "=", "2">>,
      <<"?", "u", "t", "m", "_", "i", "d", "=", "1">>,
      <<"?", "b", "=">>,
      <<"?", "b", "=", "1", "&", "c", "=", "2", "&", "b", "=", "3">>,
      <<"?", "b", "=", "%", "2", "F">>,
      <<"?", "a", "+", "b", "=", "c", "%", "3", "D">>,
      <<"?", "r", "e", "f", "=", "1", "&", "s", "o", "u", "r", "c", "e", "=", "2", "&", "f", "b", "c", "l", "i", "d", "=", "3", "&", "x", "=", "4">> }

\* the fragment part
UrlFragments ==
    { <<>>,
      <<"#", "f">> }

\* the entry links: every concatenation of the parts
UrlPool ==
    { s \o n \o p \o q \o f :
      s \in UrlSchemes, n \in UrlNetlocs, p \in UrlPaths, q \in UrlQueries, f \in UrlFragments }

\* normalize_entry: link = normalize_url(link)
NormalizeUrl ==
    /\ nu_pc = "call"
    /\ nu_result' = normalize_url(nu_url)
    /\ nu_pc' = "returned"
    /\ UNCHANGED <<nu_url, nu_key>>
    /\ UNCHANGED <<dd_vars, cl_vars, ca_vars, sel_vars, ne_vars,
                 gg_vars, pd_vars, na_vars, ff_vars>>

\* deduplicate, link stage: url_key = normalize_url(article.link)
LinkStageKey ==
    /\ nu_pc = "returned"
    /\ nu_key' = normalize_url(nu_result)
    /\ nu_pc' = "keyed"
    /\ UNCHANGED <<nu_url, nu_result>>
    /\ UNCHANGED <<dd_vars, cl_vars, ca_vars, sel_vars, ne_vars,
                 gg_vars, pd_vars, na_vars, ff_vars>>

NormalizeUrlInit ==
    /\ DdIdle /\ ClIdle /\ CaIdle /\ SelIdle /\ NeIdle
    /\ GgIdle /\ PdIdle /\ NaIdle /\ FfIdle
    /\ nu_url \in UrlPool
    /\ nu_result = <<>>
    /\ nu_key = <<>>
    /\ nu_pc = "call"

NormalizeUrlNext ==
    \/ NormalizeUrl
    \/ LinkStageKey

SpecNormalizeUrl == NormalizeUrlInit /\ [][NormalizeUrlNext]_vars

(***************************************************************************)
(* Properties of normalize_url                                             *)
(***************************************************************************)
\* C18: normalize_url(normalize_url(u)) = normalize_url(u): the key the link
\* stage recomputes from a normalized link is that link.
C18_Idempotent == nu_pc = "keyed" => nu_key = nu_result

\* a normalized link ending in ';' loses it when normalized again
C18_SecondPassDiffers ==
    /\ nu_pc = "keyed"
    /\ nu_key # nu_result
    /\ nu_result[Len(nu_result)] = ";"

S_utm_ == <<"u", "t", "m", "_">>

\* the tracking keys as stated: the utm_ family and the seven named keys,
\* compared case-insensitively
StatedTrackingKey(k) ==
    \/ (Len(k) >= 4 /\ SubSeq(Lower(k), 1, 4) = S_utm_)
    \/ Lower(k) \in { <<"f", "b", "c", "l", "i", "d">>, <<"g", "c", "l", "i", "d">>,
                      <<"r", "e", "f">>, <<"s", "o", "u", "r", "c", "e">>,
                      <<"m", "c", "_", "c", "i", "d">>, <<"m", "c", "_", "e", "i", "d">>,
                      <<"o", "c", "i", "d">> }

\* the (key, value) pairs of a query string, decoded, blank values included
QueryPairs(query) ==
    IF query = <<>> THEN {}
    ELSE LET pairs == Split(query, "&")
             KeyOf(nv) == IF Find(nv, "=") = 0 THEN nv ELSE SubSeq(nv, 1, Find(nv, "=") - 1)
             ValueOf(nv) == IF Find(nv, "=") = 0 THEN <<>> ELSE From(nv, Find(nv, "=") + 1)
         IN  { <<UnquotePlus(KeyOf(pairs[i])), UnquotePlus(ValueOf(pairs[i]))>> :
               i \in { j \in DOMAIN pairs : pairs[j] # <<>> } }

\* C19: for a URL that parses, the result has no fragment, a lowercase scheme
\* and host, a path that ends in '/' only when it is '/', no query key of the
\* utm_ family or among the seven named keys (case-insensitively), and every
\* other query key of the input with its values.
C19_NormalForm ==
    (nu_pc = "returned" /\ nu_url # <<>> /\ ~UrlsplitRaises(nu_url)) =>
        LET in == urlparse(nu_url)
            out == urlparse(nu_result)
        IN  /\ "#" \notin Range(nu_result)
            /\ out.scheme = Lower(in.scheme)
            /\ out.netloc = Lower(in.netloc)
            /\ out.path = <<"/">> \/ out.path = <<>> \/ out.path[Len(out.path)] # "/"
            /\ \A kv \in QueryPairs(out.query) : ~StatedTrackingKey(kv[1])
            /\ \A kv \in QueryPairs(in.query) :
                   ~StatedTrackingKey(kv[1]) => kv \in QueryPairs(out.query)

\* a key of the utm_ family outside TRACKING_PARAMS is in the result
C19_UtmKeyKept ==
    /\ nu_pc = "returned"
    /\ \E kv \in QueryPairs(urlparse(nu_result).query) :
           Len(kv[1]) >= 4 /\ SubSeq(kv[1], 1, 4) = S_utm_ /\ kv[1] \notin TRACKING_PARAMS

(***************************************************************************)
(* normalizer.py: normalize_entry and the functions it calls               *)
(***************************************************************************)
\* U+00A0, which html.unescape yields for &nbsp; and \s matches
NBSP == "NBSP"
Whitespace == {" ", NBSP}

\* the characters of s at the positions in kept, in order
KeepPositions(s, kept) ==
    LET Kept(p) == p \in kept
        positions == SelectSeq([i \in DOMAIN s |-> i], Kept)
    IN  [k \in DOMAIN positions |-> s[positions[k]]]

\* re.sub(r'<[^>]+>', '', text): a match is '<', one or more characters other
\* than '>', and the next '>'.  Position p is in a match exactly when there is
\* a '>' at or after p and, after the last '>' before p, a '<' at or before p
\* that is at least two places before that '>'
RemoveTags(s) ==
    LET InTag(p) ==
            LET closing == FindAny(From(s, p), {">"}) + p - 1
                before == {k \in 1..(p - 1) : s[k] = ">"}
                opened == IF before = {} THEN 0
                          ELSE CHOOSE k \in before : \A m \in before : m <= k
            IN  /\ closing <= Len(s)
                /\ \E i \in (opened + 1)..p : s[i] = "<" /\ i + 2 <= closing
    IN  KeepPositions(s, {p \in DOMAIN s : ~InTag(p)})

\* the character references of the model: name (with '&' and ';') and character
Entities ==
    << [name |-> <<"&", "a", "m", "p", ";">>, char |-> "&"],
       [name |-> <<"&", "l", "t", ";">>, char |-> "<"],
       [name |-> <<"&", "g", "t", ";">>, char |-> ">"],
       [name |-> <<"&", "n", "b", "s", "p", ";">>, char |-> NBSP] >>

StartsWith(s, prefix) == Len(s) >= Len(prefix) /\ SubSeq(s, 1, Len(prefix)) = prefix

\* html.unescape: each character reference replaced by its character, once (a
\* reference holds '&' at its start only, so references never overlap)
Unescape(s) ==
    LET StartsAt(i, e) ==
            /\ i >= 1
            /\ s[i] = "&"
            /\ i + Len(Entities[e].name) - 1 <= Len(s)
            /\ SubSeq(s, i, i + Len(Entities[e].name) - 1) = Entities[e].name
        InTail(p) ==
            \E e \in DOMAIN Entities :
                \E i \in (p - Len(Entities[e].name) + 1)..(p - 1) : StartsAt(i, e)
        Kept(p) == ~InTail(p)
        CharAt(i) ==
            IF \E e \in DOMAIN Entities : StartsAt(i, e)
            THEN Entities[CHOOSE e \in DOMAIN Entities : StartsAt(i, e)].char
            ELSE s[i]
        positions == SelectSeq([i \in DOMAIN s |-> i], Kept)
    IN  [k \in DOMAIN positions |-> CharAt(positions[k])]

\* re.sub(r'\s+', ' ', clean): every run of whitespace becomes one space
CollapseWhitespace(s) ==
    LET spaced == [i \in DOMAIN s |-> IF s[i] \in Whitespace THEN " " ELSE s[i]]
        Repeated(p) == spaced[p] = " " /\ p > 1 /\ spaced[p - 1] = " "
    IN  KeepPositions(spaced, {p \in DOMAIN s : ~Repeated(p)})

\* strip_html: tags removed, entities decoded, whitespace runs made one space, stripped
strip_html(text) ==
    IF text = <<>> THEN <<>>
    ELSE Strip(CollapseWhitespace(Unescape(RemoveTags(text))))

\* a missing or None published_parsed; time.struct_time values: mktime gives ts,
\* or raises OverflowError
NoStructTime == [kind |-> "None", ts |-> 0]
StructTime(ts) == [kind |-> "struct_time", ts |-> ts]
BadStructTime == [kind |-> "overflow", ts |-> 0]

\* published strings: empty, a date dateutil parses to the instant ts (naive,
\* or aware with its UTC offset in hours), a text it rejects
NoDate == [kind |-> "empty", ts |-> 0, offset |-> 0]
DateString(ts, tz) == [kind |-> IF tz THEN "aware" ELSE "naive", ts |-> ts, offset |-> 0]
DateStringAt(ts, offset) == [kind |-> "aware", ts |-> ts, offset |-> offset]
BadDate == [kind |-> "ParserError", ts |-> 0, offset |-> 0]

\* parse_datetime: the structured time when mktime accepts it (tz=timezone.utc),
\* else the parsed string as dateutil gives it (a naive result is given UTC, an
\* aware one keeps its tzinfo), else the current time in UTC
parse_datetime(entry, now) ==
    LET struct_time == Get(entry, "published_parsed", NoStructTime)
        date_str == Get(entry, "published", NoDate)
    IN  IF struct_time.kind = "struct_time"
        THEN [ts |-> struct_time.ts, aware |-> TRUE, utcoffset |-> 0]
        ELSE IF date_str.kind = "aware"
        THEN [ts |-> date_str.ts, aware |-> TRUE, utcoffset |-> date_str.offset]
        ELSE IF date_str.kind = "naive"
        THEN [ts |-> date_str.ts, aware |-> TRUE, utcoffset |-> 0]
        ELSE [ts |-> now, aware |-> TRUE, utcoffset |-> 0]

RECURSIVE ReprItems(_)
ReprItems(items) ==
    IF items = <<>> THEN <<>>
    ELSE <<"'">> \o items[1].key \o <<"'", ":", " ", "'">> \o items[1].val \o <<"'">>
         \o (IF Len(items) > 1 THEN <<",", " ">> ELSE <<>>) \o ReprItems(Tail(items))

\* str(guid) for a dict of texts
StrOfDict(items) == <<"{">> \o ReprItems(items) \o <<"}">>

\* hashlib.md5(text.encode()).hexdigest() of the texts a digest is taken of here
Md5Digests ==
      <<>> :> 
          <<"d", "4", "1", "d", "8", "c", "d", "9", "8", "f", "0", "0", "b", "2", "0", "4">>
          \o <<"e", "9", "8", "0", "0", "9", "9", "8", "e", "c", "f", "8", "4", "2", "7", "e">>
    @@ <<"H", "i">> :> 
          <<"c", "1", "a", "5", "2", "9", "8", "f", "9", "3", "9", "e", "8", "7", "e", "8">>
          \o <<"f", "9", "6", "2", "a", "5", "e", "d", "f", "c", "2", "0", "6", "9", "1", "8">>
    @@ <<"t">> :> 
          <<"e", "3", "5", "8", "e", "f", "a", "4", "8", "9", "f", "5", "8", "0", "6", "2">>
          \o <<"f", "1", "0", "d", "d", "7", "3", "1", "6", "b", "6", "5", "6", "4", "9", "e">>

Md5Hex(text) == Md5Digests[text]

\* the values of guid and id: a text, or a dict of texts
TextValue(text) == [kind |-> "str", text |-> text, items |-> <<>>]
DictValue(items) == [kind |-> "dict", text |-> <<>>, items |-> items]

\* bool(guid)
Truthy(v) == IF v.kind = "dict" THEN v.items # <<>> ELSE v.text # <<>>

S_value == <<"v", "a", "l", "u", "e">>

\* str(guid.get('value', str(guid))) for a dict, str(guid) for a text
GuidText(guid) ==
    IF guid.kind = "dict"
    THEN IF DictHas(guid.items, S_value) THEN DictGet(guid.items, S_value)
         ELSE StrOfDict(guid.items)
    ELSE guid.text

\* generate_guid: the entry's guid (else id) when it is truthy, else the link,
\* else the digest of the title
generate_guid(entry, link, title) ==
    LET guid == Get(entry, "guid", Get(entry, "id", TextValue(<<>>)))
    IN  IF Truthy(guid) THEN GuidText(guid)
        ELSE IF link # <<>> THEN link
        ELSE Md5Hex(title)

RECURSIVE Remove(_, _)
\* str.replace(sub, '')
Remove(s, sub) ==
    IF s = <<>> THEN <<>>
    ELSE IF StartsWith(s, sub) THEN Remove(From(s, Len(sub) + 1), sub)
    ELSE <<s[1]>> \o Remove(Tail(s), sub)

LowerSet == Range(LowerLetters)
UpperOf == [c \in LowerSet |->
               UpperLetters[CHOOSE i \in DOMAIN LowerLetters : LowerLetters[i] = c]]

\* str.title(): a letter after a non-letter is upper case, any other letter lower case
Title(s) ==
    [i \in DOMAIN s |->
        IF i = 1 \/ s[i - 1] \notin Letters
        THEN (IF s[i] \in LowerSet THEN UpperOf[s[i]] ELSE s[i])
        ELSE LowerChar(s[i])]

\* get_source_name(entry): the entry's own name, else the first label of the feed
\* host without 'www.' and 'feeds.', else "Unknown"
get_source_name(entry) ==
    LET source_name == Get(entry, "_source_name", <<>>)
        feed_url == Get(entry, "source_feed_url", <<>>)
        domain == Remove(Remove(urlparse(feed_url).netloc, <<"w", "w", "w", ".">>),
                         <<"f", "e", "e", "d", "s", ".">>)
    IN  IF source_name # <<>> THEN source_name
        ELSE IF feed_url # <<>> /\ ~UrlsplitRaises(feed_url) THEN Title(Split(domain, ".")[1])
        ELSE <<"U", "n", "k", "n", "o", "w", "n">>

\* the longest description kept whole
DescriptionLimit == 500

\* str.rsplit(' ', 1)[0]: the text before the last space, the whole text without one
BeforeLastSpace(s) ==
    IF " " \in Range(s)
    THEN SubSeq(s, 1, (CHOOSE i \in DOMAIN s : s[i] = " " /\ \A j \in (i + 1)..Len(s) : s[j] # " ") - 1)
    ELSE s

\* the description: the cleaned summary, cut at a word when longer than the limit
DescriptionOf(entry) ==
    LET description == strip_html(Get(entry, "summary", <<>>))
    IN  IF description = <<>> THEN "None"
        ELSE IF Len(description) > DescriptionLimit
        THEN BeforeLastSpace(SubSeq(description, 1, DescriptionLimit)) \o <<".", ".", ".">>
        ELSE description

\* normalize_entry: the NormalizedArticle as a list of one, the empty list for
\* None (an entry without title or link)
normalize_entry(entry, tab, language, rss_category, source_name, now) ==
    LET title == strip_html(Get(entry, "title", <<>>))
        link == normalize_url(Get(entry, "link", <<>>))
    IN  IF title = <<>> THEN <<>>
        ELSE IF link = <<>> THEN <<>>
        ELSE << [title |-> title,
              link |-> link,
              published |-> parse_datetime(entry, now),
              source_name |-> IF source_name # <<>> THEN source_name ELSE get_source_name(entry),
              language |-> language,
              tab |-> tab,
              rss_category |-> rss_category,
              guid |-> generate_guid(entry, link, title),
              description |-> DescriptionOf(entry),
              final_category |-> "None"] >>

(***************************************************************************)
(* The raw entries given to normalize_entry                                *)
(***************************************************************************)
Absent == [present |-> FALSE, value |-> <<>>]
Present(v) == [present |-> TRUE, value |-> v]

\* titles: empty, plain, with tags and an entity, tags only, a non-breaking
\* space only, and '<>' (which is no tag)
TitleChoices ==
    { Absent, Present(<<>>), Present(<<"H", "i">>),
      Present(<<"<", "b", ">", "H", "i", "<", "/", "b", ">", " ", "&", "a", "m", "p", ";", " ", "y", "o">>),
      Present(<<"<", "b", ">", "<", "/", "b", ">">>),
      Present(<<"&", "n", "b", "s", "p", ";">>),
      Present(<<"<", ">">>) }

LinkChoices == { Absent, Present(<<>>), Present(LinkA), Present(LinkAv) }

\* guid: missing, empty, a text, and dicts with a 'value', with an empty
\* 'value', without items, and without 'value'
GuidChoices ==
    { Absent, Present(TextValue(<<>>)), Present(TextValue(<<"g", "1">>)),
      Present(DictValue(<<[key |-> S_value, val |-> <<"v">>]>>)),
      Present(DictValue(<<[key |-> S_value, val |-> <<>>]>>)),
      Present(DictValue(<<>>)),
      Present(DictValue(<<[key |-> <<"i", "s">>, val |-> <<"n", "o">>]>>)) }

IdChoices == { Absent, Present(TextValue(<<"i", "1">>)) }

\* (published_parsed, published)
DateChoices ==
    { <<Absent, Absent>>,
      <<Absent, Present(NoDate)>>,
      <<Absent, Present(BadDate)>>,
      <<Present(NoStructTime), Present(DateString(2, TRUE))>>,
      <<Present(StructTime(1)), Present(DateString(2, TRUE))>>,
      <<Present(BadStructTime), Present(DateString(2, FALSE))>> }

\* a summary longer than the limit, a space after every seven letters
LongSummary == [i \in 1..(DescriptionLimit + 10) |-> IF i % 8 = 0 THEN " " ELSE "a"]

\* as long, with a word that ends at the limit; as long, one word; of the limit's length
LongSummaryWordEnd == [i \in 1..(DescriptionLimit + 10) |-> IF i % 8 = 5 THEN " " ELSE "a"]
LongWord == [i \in 1..(DescriptionLimit + 10) |-> "a"]
FullSummary == [i \in 1..DescriptionLimit |-> IF i % 8 = 0 THEN " " ELSE "a"]

SummaryChoices ==
    { Absent, Present(<<"<", "p", ">", "a", " ", " ", "b", "<", "/", "p", ">">>) }

\* (_source_name, source_feed_url)
SourceChoices ==
    { <<Absent, Absent>>, <<Present(<<"B">>), Absent>>, <<Absent, Present(<<"h", "t", "t", "p", ":", "/", "/", "w", "w", "w", ".", "x", ".", "c", "o", "/", "f">>)>> }

\* the dict of the fields that are present
EntryOf(c) == [f \in {g \in DOMAIN c : c[g].present} |-> c[f].value]

\* every combination of the choices, and entries with the long summaries
EntryPool ==
    { EntryOf([title |-> t, link |-> l, guid |-> g, id |-> i,
               published_parsed |-> d[1], published |-> d[2], summary |-> s,
               _source_name |-> n[1], source_feed_url |-> n[2]]) :
      t \in TitleChoices, l \in LinkChoices, g \in GuidChoices, i \in IdChoices,
      d \in DateChoices, s \in SummaryChoices, n \in SourceChoices }
    \cup
    { [title |-> <<"H", "i">>, link |-> l, summary |-> m] :
      l \in {<<>>, LinkA},
      m \in {LongSummary, LongSummaryWordEnd, LongWord, FullSummary} }

\* normalize_all passes the tab, the language and the entry's _category and _source_name
ArgsPool ==
    { [tab |-> T_zh_news, language |-> <<"z", "h">>, rss_category |-> "Finance",
       source_name |-> n] : n \in {<<"A">>, <<>>} }

\* datetime.now(timezone.utc)
NowValues == {3, 4}

\* normalize_entry(entry, tab, language, rss_category, source_name)
NormalizeEntry ==
    /\ ne_pc = "call"
    /\ \E now \in NowValues :
           ne_result' = normalize_entry(ne_entry, ne_args.tab, ne_args.language,
                                        ne_args.rss_category, ne_args.source_name, now)
    /\ ne_pc' = "returned"
    /\ UNCHANGED <<ne_entry, ne_args>>
    /\ UNCHANGED <<dd_vars, cl_vars, ca_vars, sel_vars, nu_vars,
                 gg_vars, pd_vars, na_vars, ff_vars>>

NormalizeEntryInit ==
    /\ DdIdle /\ ClIdle /\ CaIdle /\ SelIdle /\ NuIdle
    /\ GgIdle /\ PdIdle /\ NaIdle /\ FfIdle
    /\ ne_entry \in EntryPool
    /\ ne_args \in ArgsPool
    /\ ne_result = <<>>
    /\ ne_pc = "call"

NormalizeEntryNext == NormalizeEntry

SpecNormalizeEntry == NormalizeEntryInit /\ [][NormalizeEntryNext]_vars

(***************************************************************************)
(* Properties of normalize_entry                                           *)
(***************************************************************************)
\* C20: a record is emitted exactly when the cleaned title and the normalized
\* link are non-empty, whatever fields the entry lacks, and an emitted record
\* has a non-empty title, link and guid.
C20_EmitsRecordWithGuid ==
    ne_pc = "returned" =>
        /\ ne_result # <<>>
               <=> /\ strip_html(Get(ne_entry, "title", <<>>)) # <<>>
                   /\ normalize_url(Get(ne_entry, "link", <<>>)) # <<>>
        /\ ne_result # <<>> =>
               /\ ne_result[1].title # <<>>
               /\ ne_result[1].link # <<>>
               /\ ne_result[1].guid # <<>>

\* an entry whose guid is a dict with an empty 'value' gave a record with an empty guid
C20_EmptyGuidEmitted ==
    /\ ne_pc = "returned"
    /\ ne_result # <<>>
    /\ ne_result[1].guid = <<>>
    /\ "guid" \in DOMAIN ne_entry
    /\ ne_entry.guid.kind = "dict"

\* the lengths k up to the limit at which a prefix of the text ends with a
\* whole word (the empty prefix among them), for a text longer than the limit
WordBoundaries(text) ==
    {0} \cup {k \in 1..DescriptionLimit : text[k] # " " /\ text[k + 1] = " "}

LongestWholeWords(text) ==
    SubSeq(text, 1, CHOOSE k \in WordBoundaries(text) : \A j \in WordBoundaries(text) : j <= k)

\* C23: the stored description is absent for an empty cleaned summary, the
\* cleaned summary when that has at most 500 characters, and otherwise its
\* longest prefix of whole words within 500 characters followed by '...'; it
\* has at most 503 characters.
C23_DescriptionBounded ==
    (ne_pc = "returned" /\ ne_result # <<>>) =>
        LET cleaned == strip_html(Get(ne_entry, "summary", <<>>))
            stored == ne_result[1].description
        IN  IF cleaned = <<>> THEN stored = "None"
            ELSE /\ Len(stored) <= DescriptionLimit + 3
                 /\ IF Len(cleaned) <= DescriptionLimit THEN stored = cleaned
                    ELSE stored = LongestWholeWords(cleaned) \o <<".", ".", ".">>

\* a summary whose word ends at character 500 was stored without that word
C23_WholeWordDropped ==
    /\ ne_pc = "returned"
    /\ ne_result # <<>>
    /\ "summary" \in DOMAIN ne_entry
    /\ ne_entry.summary = LongSummaryWordEnd
    /\ Len(ne_result[1].description) < DescriptionLimit - 3

(***************************************************************************)
(* generate_guid called on its own                                         *)
(***************************************************************************)
\* entries with every guid of GuidChoices and an id that is missing, empty or a text
GuidEntries ==
    { EntryOf([guid |-> g, id |-> i]) :
      g \in GuidChoices, i \in IdChoices \cup {Present(TextValue(<<>>))} }

\* generate_guid(entry, link, title)
GenerateGuid ==
    /\ gg_pc = "call"
    /\ gg_result' = generate_guid(gg_entry, gg_link, gg_title)
    /\ gg_pc' = "returned"
    /\ UNCHANGED <<gg_entry, gg_link, gg_title, gg_again>>
    /\ UNCHANGED <<dd_vars, cl_vars, ca_vars, sel_vars, nu_vars, ne_vars,
                   pd_vars, na_vars, ff_vars>>

\* a second call with the same arguments
GenerateGuidAgain ==
    /\ gg_pc = "returned"
    /\ gg_again' = generate_guid(gg_entry, gg_link, gg_title)
    /\ gg_pc' = "repeated"
    /\ UNCHANGED <<gg_entry, gg_link, gg_title, gg_result>>
    /\ UNCHANGED <<dd_vars, cl_vars, ca_vars, sel_vars, nu_vars, ne_vars,
                   pd_vars, na_vars, ff_vars>>

GenerateGuidInit ==
    /\ DdIdle /\ ClIdle /\ CaIdle /\ SelIdle /\ NuIdle /\ NeIdle
    /\ PdIdle /\ NaIdle /\ FfIdle
    /\ gg_entry \in GuidEntries
    /\ gg_link \in {<<>>, LinkA}
    /\ gg_title \in DOMAIN Md5Digests
    /\ gg_result = <<>>
    /\ gg_again = <<>>
    /\ gg_pc = "call"

GenerateGuidNext == GenerateGuid \/ GenerateGuidAgain

SpecGenerateGuid == GenerateGuidInit /\ [][GenerateGuidNext]_vars

(***************************************************************************)
(* Properties of generate_guid                                             *)
(***************************************************************************)
HexDigits == Digits \cup {"a", "b", "c", "d", "e", "f"}

\* the entry carries a non-empty value under the field
Carries(entry, field) == field \in DOMAIN entry /\ Truthy(entry[field])

\* C21: the result is the entry's guid when that is non-empty, else its id when
\* that is non-empty, else the link when non-empty, else 32 hex digits taken
\* from the title; a second call with the same arguments gives the same result.
C21_PrefersIdentifier ==
    /\ gg_pc \in {"returned", "repeated"} =>
           IF Carries(gg_entry, "guid") THEN gg_result = GuidText(gg_entry.guid)
           ELSE IF Carries(gg_entry, "id") THEN gg_result = GuidText(gg_entry.id)
           ELSE IF gg_link # <<>> THEN gg_result = gg_link
           ELSE /\ Len(gg_result) = 32
                /\ Range(gg_result) \subseteq HexDigits
                /\ gg_result = Md5Hex(gg_title)
    /\ gg_pc = "repeated" => gg_again = gg_result

\* an entry with an empty guid and a non-empty id got the link as its guid
C21_IdPassedOver ==
    /\ gg_pc = "returned"
    /\ ~Carries(gg_entry, "guid")
    /\ Carries(gg_entry, "id")
    /\ gg_result = gg_link
    /\ gg_result # GuidText(gg_entry.id)

(***************************************************************************)
(* parse_datetime called on its own                                        *)
(***************************************************************************)
StructTimeChoices ==
    { Absent, Present(NoStructTime), Present(BadStructTime),
      Present(StructTime(1)), Present(StructTime(2)), Present(StructTime(7)) }

\* published: missing, empty, rejected, aware in UTC, naive, aware east and west of UTC
PublishedChoices ==
    { Absent, Present(NoDate), Present(BadDate),
      Present(DateString(2, TRUE)), Present(DateString(5, TRUE)),
      Present(DateString(2, FALSE)), Present(DateString(6, FALSE)),
      Present(DateStringAt(2, 9)), Present(DateStringAt(6, 0 - 5)) }

DateEntries ==
    { EntryOf([published_parsed |-> p, published |-> d]) :
      p \in StructTimeChoices, d \in PublishedChoices }

\* parse_datetime(entry)
ParseDatetime ==
    /\ pd_pc = "call"
    /\ \E now \in NowValues : pd_result' = <<parse_datetime(pd_entry, now)>>
    /\ pd_pc' = "returned"
    /\ UNCHANGED pd_entry
    /\ UNCHANGED <<dd_vars, cl_vars, ca_vars, sel_vars, nu_vars, ne_vars,
                   gg_vars, na_vars, ff_vars>>

ParseDatetimeInit ==
    /\ DdIdle /\ ClIdle /\ CaIdle /\ SelIdle /\ NuIdle /\ NeIdle
    /\ GgIdle /\ NaIdle /\ FfIdle
    /\ pd_entry \in DateEntries
    /\ pd_result = <<>>
    /\ pd_pc = "call"

ParseDatetimeNext == ParseDatetime

SpecParseDatetime == ParseDatetimeInit /\ [][ParseDatetimeNext]_vars

(***************************************************************************)
(* Properties of parse_datetime                                            *)
(***************************************************************************)
\* the structured time is supplied and usable; the date string is parsed
UsableStructTime(entry) ==
    "published_parsed" \in DOMAIN entry /\ entry.published_parsed.kind = "struct_time"

ParsedDateString(entry) ==
    "published" \in DOMAIN entry /\ entry.published.kind \in {"aware", "naive"}

\* C22: the call returns; the result is the structured time when usable, else
\* the parsed date string, else the current time; it is timezone-aware and
\* its UTC offset is zero.
C22_AlwaysUtc ==
    /\ pd_pc # "raised"
    /\ pd_pc = "returned" =>
           /\ Len(pd_result) = 1
           /\ pd_result[1].ts = IF UsableStructTime(pd_entry) THEN pd_entry.published_parsed.ts
                                ELSE IF ParsedDateString(pd_entry) THEN pd_entry.published.ts
                                ELSE pd_result[1].ts
           /\ (~UsableStructTime(pd_entry) /\ ~ParsedDateString(pd_entry))
                  => pd_result[1].ts \in NowValues
           /\ pd_result[1].aware
           /\ pd_result[1].utcoffset = 0

\* a date string with a UTC offset of nine hours came back with that offset
C22_OffsetKept ==
    /\ pd_pc = "returned"
    /\ ~UsableStructTime(pd_entry)
    /\ ParsedDateString(pd_entry)
    /\ pd_entry.published.offset = 9
    /\ pd_result[1].utcoffset = 9

(***************************************************************************)
(* normalize_all                                                           *)
(***************************************************************************)
MaxNaTabs == 2
MaxNaEntries == 2

RECURSIVE ConcatAll(_)
\* the lists of a list, one after the other
ConcatAll(lists) ==
    IF lists = <<>> THEN <<>> ELSE lists[1] \o ConcatAll(Tail(lists))

\* the loop over the entries of one tab: the articles normalize_entry returns,
\* in order (None is not appended); nows[e] is the clock at the e-th entry
normalize_tab(tab_id, language, entries, nows) ==
    ConcatAll([e \in DOMAIN entries |->
        normalize_entry(entries[e], tab_id,
                        Get(entries[e], "_language", language),
                        Get(entries[e], "_category", ""),
                        Get(entries[e], "_source_name", <<>>),
                        nows[e])])

\* every tab of raw_feeds is normalized, configured or not
normalize_allWithoutConfigCheck(raw_feeds, config, nows) ==
    ConcatAll([t \in DOMAIN raw_feeds |->
        normalize_tab(raw_feeds[t].key, <<>>, raw_feeds[t].val, nows[t])])

\* normalize_all: the tabs of raw_feeds in order, a tab without configuration
\* skipped
normalize_all(raw_feeds, config, nows) ==
    ConcatAll([t \in DOMAIN raw_feeds |->
        IF ~DictHas(config, raw_feeds[t].key) THEN <<>>
        ELSE normalize_tab(raw_feeds[t].key, DictGet(config, raw_feeds[t].key),
                           raw_feeds[t].val, nows[t])])

\* raw entries as fetch_all_feeds leaves them and as a caller may pass them:
\* complete with metadata, without a title, with an empty link, without metadata
NaEntries ==
    { [title |-> <<"H", "i">>, link |-> LinkA, guid |-> TextValue(<<"g", "1">>),
       published_parsed |-> StructTime(1), _language |-> <<"z", "h">>,
       _category |-> "Finance", _source_name |-> <<"B">>],
      [link |-> LinkB],
      [title |-> <<"H", "i">>, link |-> <<>>],
      [title |-> <<"t">>, link |-> LinkAv] }

NaTabs == {T_zh_news, T_en_news, T_ja_news}

\* config.tabs: tab_id -> language
NaConfigs ==
    { <<[key |-> T_zh_news, val |-> <<"z", "h">>], [key |-> T_en_news, val |-> <<"e", "n">>]>>,
      <<[key |-> T_zh_news, val |-> <<"z", "h">>]>> }

\* the caller adds a tab to raw_feeds
NaAddTab ==
    /\ na_pc = "call"
    /\ Len(na_raw_feeds) < MaxNaTabs
    /\ \E tab_id \in NaTabs :
           /\ ~DictHas(na_raw_feeds, tab_id)
           /\ na_raw_feeds' = Append(na_raw_feeds, [key |-> tab_id, val |-> <<>>])
    /\ UNCHANGED <<na_config, na_articles, na_pc>>
    /\ UNCHANGED <<dd_vars, cl_vars, ca_vars, sel_vars, nu_vars, ne_vars,
                   gg_vars, pd_vars, ff_vars>>

\* the caller adds an entry to the tab added last
NaAddEntry ==
    /\ na_pc = "call"
    /\ na_raw_feeds # <<>>
    /\ Len(na_raw_feeds[Len(na_raw_feeds)].val) < MaxNaEntries
    /\ \E entry \in NaEntries :
           na_raw_feeds' = [na_raw_feeds EXCEPT ![Len(na_raw_feeds)].val = Append(@, entry)]
    /\ UNCHANGED <<na_config, na_articles, na_pc>>
    /\ UNCHANGED <<dd_vars, cl_vars, ca_vars, sel_vars, nu_vars, ne_vars,
                   gg_vars, pd_vars, ff_vars>>

\* normalize_all(raw_feeds, config)
NormalizeAll ==
    /\ na_pc = "call"
    /\ \E nows \in [1..MaxNaTabs -> [1..MaxNaEntries -> NowValues]] :
           na_articles' = normalize_all(na_raw_feeds, na_config, nows)
    /\ na_pc' = "returned"
    /\ UNCHANGED <<na_raw_feeds, na_config>>
    /\ UNCHANGED <<dd_vars, cl_vars, ca_vars, sel_vars, nu_vars, ne_vars,
                   gg_vars, pd_vars, ff_vars>>

NormalizeAllInit ==
    /\ DdIdle /\ ClIdle /\ CaIdle /\ SelIdle /\ NuIdle /\ NeIdle
    /\ GgIdle /\ PdIdle /\ FfIdle
    /\ na_raw_feeds = <<>>
    /\ na_config \in NaConfigs
    /\ na_articles = <<>>
    /\ na_pc = "call"

NormalizeAllNext == NaAddTab \/ NaAddEntry \/ NormalizeAll

SpecNormalizeAll == NormalizeAllInit /\ [][NormalizeAllNext]_vars

(***************************************************************************)
(* Properties of normalize_all                                             *)
(***************************************************************************)
\* normalize_entry accepts the entry: its cleaned title and normalized link are non-empty
Accepted(entry) ==
    /\ strip_html(Get(entry, "title", <<>>)) # <<>>
    /\ normalize_url(Get(entry, "link", <<>>)) # <<>>

\* the entries of raw_feeds under the tab_id
EntriesUnder(tab_id) ==
    IF DictHas(na_raw_feeds, tab_id) THEN DictGet(na_raw_feeds, tab_id) ELSE <<>>

\* C24: the call returns; a tab without configuration gives no record; under a
\* configured tab every accepted entry gives one record, in order, carrying
\* that tab, and a rejected entry gives none; so the records are at most as
\* many as the entries under configured tabs.
C24_BatchNeverAborts ==
    /\ na_pc # "raised"
    /\ na_pc = "returned" =>
           /\ \A tab_id \in NaTabs :
                  LET OfTab(a) == a.tab = tab_id
                      emitted == SelectSeq(na_articles, OfTab)
                      accepted == SelectSeq(EntriesUnder(tab_id), Accepted)
                  IN  IF ~DictHas(na_config, tab_id) THEN emitted = <<>>
                      ELSE /\ Len(emitted) = Len(accepted)
                           /\ \A k \in DOMAIN emitted :
                                  /\ emitted[k].title = strip_html(accepted[k].title)
                                  /\ emitted[k].link = normalize_url(accepted[k].link)
           /\ \A k \in DOMAIN na_articles : na_articles[k].tab \in NaTabs
           /\ Len(na_articles) <=
                  Len(ConcatAll([t \in DOMAIN na_raw_feeds |->
                          IF DictHas(na_config, na_raw_feeds[t].key)
                          THEN na_raw_feeds[t].val ELSE <<>>]))

\* a tab without configuration holding an accepted entry came first, and a
\* configured tab after it gave a record and dropped a rejected entry
C24_Witness ==
    /\ na_pc = "returned"
    /\ Len(na_raw_feeds) = 2
    /\ ~DictHas(na_config, na_raw_feeds[1].key)
    /\ \E e \in DOMAIN na_raw_feeds[1].val : Accepted(na_raw_feeds[1].val[e])
    /\ DictHas(na_config, na_raw_feeds[2].key)
    /\ \E e \in DOMAIN na_raw_feeds[2].val : ~Accepted(na_raw_feeds[2].val[e])
    /\ Len(na_articles) = 1
    /\ na_articles[1].tab = na_raw_feeds[2].key

(***************************************************************************)
(* fetch_feed                                                              *)
(***************************************************************************)
MaxRetries == 4
MaxItems == 2
MaxFeedEntries == 3

backoff == <<1, 2, 4>>

\* backoff[min(attempt, len(backoff) - 1)], attempt counted from 0
BackoffOf(attempt) == backoff[(IF attempt < Len(backoff) - 1 THEN attempt ELSE Len(backoff) - 1) + 1]

\* the test before time.sleep, made as if it were always true
SleepsAfterEveryFailure(attempt, retries) == TRUE

\* 'if attempt < retries' before time.sleep
SleepsAfter(attempt, retries) == attempt < retries

\* feed.entries[:max_items], the entries of the feed numbered from 1
EntriesUpTo(count, max_items) == [k \in 1..(IF count < max_items THEN count ELSE max_items) |-> k]

\* what a request can come to: a feed with entries (bozo or not), a feed without
\* entries that is well-formed, a bozo feed without entries, requests' Timeout,
\* another RequestException (raise_for_status included), any other exception
Outcomes ==
    { [kind |-> "feed", entries |-> n] : n \in 0..MaxFeedEntries }
    \cup { [kind |-> k, entries |-> 0] : k \in {"bozo_empty", "Timeout", "RequestException", "Exception"} }

GetEvent(outcome) == [event |-> "get", outcome |-> outcome.kind, secs |-> 0]
SleepEvent(secs) == [event |-> "sleep", outcome |-> "", secs |-> secs]

\* one pass of the loop body up to its sleep: requests.get, raise_for_status,
\* feedparser.parse and the branch taken
FfRequest ==
    /\ ff_pc = "request"
    /\ ff_attempt <= ff_retries
    /\ ff_requests' = ff_requests + 1
    /\ \E outcome \in Outcomes :
           /\ ff_log' = Append(ff_log, GetEvent(outcome))
           /\ CASE outcome.kind = "feed" ->
                       /\ ff_result' = EntriesUpTo(outcome.entries, ff_max_items)
                       /\ ff_pc' = "returned"
                       /\ UNCHANGED ff_attempt
                [] outcome.kind = "Exception" ->
                       /\ ff_result' = <<>>
                       /\ ff_pc' = "returned"
                       /\ UNCHANGED ff_attempt
                [] outcome.kind = "bozo_empty" ->
                       IF SleepsAfter(ff_attempt, ff_retries)
                       THEN ff_pc' = "sleep" /\ UNCHANGED <<ff_result, ff_attempt>>
                       ELSE /\ ff_result' = <<>>
                            /\ ff_pc' = "returned"
                            /\ UNCHANGED ff_attempt
                [] outcome.kind \in {"Timeout", "RequestException"} ->
                       IF SleepsAfter(ff_attempt, ff_retries)
                       THEN ff_pc' = "sleep" /\ UNCHANGED <<ff_result, ff_attempt>>
                       ELSE /\ ff_attempt' = ff_attempt + 1
                            /\ UNCHANGED <<ff_result, ff_pc>>
    /\ UNCHANGED <<ff_retries, ff_max_items>>
    /\ UNCHANGED <<dd_vars, cl_vars, ca_vars, sel_vars, nu_vars, ne_vars,
                   gg_vars, pd_vars, na_vars>>

\* time.sleep(backoff[...]) and 'continue'
FfSleep ==
    /\ ff_pc = "sleep"
    /\ ff_log' = Append(ff_log, SleepEvent(BackoffOf(ff_attempt)))
    /\ ff_attempt' = ff_attempt + 1
    /\ ff_pc' = "request"
    /\ UNCHANGED <<ff_retries, ff_max_items, ff_requests, ff_result>>
    /\ UNCHANGED <<dd_vars, cl_vars, ca_vars, sel_vars, nu_vars, ne_vars,
                   gg_vars, pd_vars, na_vars>>

\* the loop is exhausted: 'return []' after it
FfGiveUp ==
    /\ ff_pc = "request"
    /\ ff_attempt > ff_retries
    /\ ff_result' = <<>>
    /\ ff_pc' = "returned"
    /\ UNCHANGED <<ff_retries, ff_max_items, ff_attempt, ff_requests, ff_log>>
    /\ UNCHANGED <<dd_vars, cl_vars, ca_vars, sel_vars, nu_vars, ne_vars,
                   gg_vars, pd_vars, na_vars>>

FetchFeedInit ==
    /\ DdIdle /\ ClIdle /\ CaIdle /\ SelIdle /\ NuIdle /\ NeIdle
    /\ GgIdle /\ PdIdle /\ NaIdle
    /\ ff_retries \in 0..MaxRetries
    /\ ff_max_items \in 0..MaxItems
    /\ ff_attempt = 0
    /\ ff_requests = 0
    /\ ff_log = <<>>
    /\ ff_result = <<>>
    /\ ff_pc = "request"

FetchFeedNext == FfRequest \/ FfSleep \/ FfGiveUp

\* the call runs on: requests.get returns within its timeout and time.sleep returns
SpecFetchFeed == FetchFeedInit /\ [][FetchFeedNext]_vars /\ WF_vars(FetchFeedNext)

(***************************************************************************)
(* Properties of fetch_feed                                                *)
(***************************************************************************)
Gets == {k \in DOMAIN ff_log : ff_log[k].event = "get"}
Sleeps == {k \in DOMAIN ff_log : ff_log[k].event = "sleep"}

\* the waits in order are 1, 2, 4, 4, ...; each comes right after a request
\* and, once the call has returned, before another request
BackoffBetweenAttempts ==
    /\ \A k \in Sleeps :
           /\ k > 1 /\ ff_log[k - 1].event = "get"
           /\ ff_log[k].secs = BackoffOf(Cardinality({j \in Sleeps : j < k}))
           /\ ff_pc = "returned" => (k < Len(ff_log) /\ ff_log[k + 1].event = "get")
    /\ Cardinality(Sleeps) <= ff_retries

FetchFeedSafe ==
    /\ ff_pc # "raised"
    /\ ff_requests = Cardinality(Gets)
    /\ ff_requests <= ff_retries + 1
    /\ BackoffBetweenAttempts
    /\ \A k \in Gets : ff_log[k].outcome = "feed" => (k = Len(ff_log) /\ ff_pc = "returned")
    /\ ff_pc = "returned" =>
           /\ Len(ff_result) <= ff_max_items
           /\ (\A k \in Gets : ff_log[k].outcome # "feed") => ff_result = <<>>

\* C25: the call returns and never raises; it makes at most retries+1 requests,
\* waits 1, 2, 4, 4, ... seconds only between two requests, returns the empty
\* list when no request gave a feed, stops at the first feed, and returns at
\* most max_items entries.
C25_FetchTerminates == []FetchFeedSafe /\ <>(ff_pc = "returned")

\* every one of five requests failed, with waits of 1, 2, 4 and 4 seconds between them
C25_Witness ==
    /\ ff_pc = "returned"
    /\ ff_retries = 4
    /\ ff_requests = 5
    /\ [k \in 1..4 |-> ff_log[2 * k].secs] = <<1, 2, 4, 4>>
    /\ ff_log[Len(ff_log)].event = "get"
    /\ ff_result = <<>>

(***************************************************************************)
(* Properties of deduplicate: the latest record                            *)
(***************************************************************************)
\* the publishedAt of the i-th record is strictly later than that of every other
StrictlyLatest(list, i) ==
    \A j \in DOMAIN list :
        j # i => /\ list[i].published.aware = list[j].published.aware
                 /\ list[i].published.ts > list[j].published.ts

\* C28: on a non-empty list of well-formed records the call returns a
\* non-empty list, and a record published strictly later than every other is
\* in the output of every stage and in the result.
C28_LatestSurvives ==
    (dd_pc # "call" /\ articles # <<>> /\ WellFormed(articles)) =>
        /\ dd_pc = "returned"
        /\ final_results # <<>>
        /\ \A i \in DOMAIN articles :
               StrictlyLatest(articles, i) =>
                   /\ articles[i] \in Range(stage1_results)
                   /\ articles[i] \in Range(stage2_results)
                   /\ articles[i] \in Range(final_results)

\* the latest record came last, after a record of its guid and a record of its
\* link, and is the only survivor
C28_Witness ==
    /\ dd_pc = "returned"
    /\ WellFormed(articles)
    /\ Len(articles) = 3
    /\ StrictlyLatest(articles, 3)
    /\ articles[3].guid = articles[1].guid
    /\ NormalizedLink[articles[3].link] = NormalizedLink[articles[2].link]
    /\ final_results = <<articles[3]>>

(***************************************************************************)
(* deduplicate called a second time                                        *)
(***************************************************************************)
\* three timezone-aware instants, and the naive datetime
DatedPublished == { [ts |-> t, aware |-> TRUE] : t \in 1..3 } \cup {NaivePublished}

\* headings: two with one comparison key, and one of another tab
DatedHeadings == {h \in Headings : h.source_name = <<"A">> /\ "_" \notin Range(h.title)}

DatedPool ==
    { Article(h, l, p, g) :
      h \in DatedHeadings, l \in {LinkA, LinkB, LinkC}, p \in DatedPublished, g \in Guids }

\* main(): normalize_all has appended one more record
AddDatedArticle ==
    /\ dd_pc = "call"
    /\ Len(articles) < MaxLen
    /\ \E a \in DatedPool :
           /\ InOrder(GuidOrder, {articles[i].guid : i \in DOMAIN articles}, a.guid)
           /\ InOrder(LinkOrder, {NormalizedLink[articles[i].link] : i \in DOMAIN articles},
                      NormalizedLink[a.link])
           /\ articles' = Append(articles, a)
    /\ UNCHANGED <<stage1_results, stage2_results, final_results, dd_pc, dd_exc>>
    /\ UNCHANGED <<dd_second_input, dd_second_result, dd_second_pc>>
    /\ UNCHANGED <<cl_vars, ca_vars, sel_vars, nu_vars, ne_vars,
                   gg_vars, pd_vars, na_vars, ff_vars>>

\* the outcome of a call as the caller sees it
OutcomeOf(r) == [final |-> r.final, exc |-> r.exc]

\* deduplicate(deduplicate(articles)): the call on the returned list
DeduplicateAgain ==
    /\ dd_pc = "returned"
    /\ dd_second_pc = "idle"
    /\ dd_second_input' = final_results
    /\ dd_second_result' = OutcomeOf(deduplicate(final_results))
    /\ dd_second_pc' = "again"
    /\ UNCHANGED <<articles, stage1_results, stage2_results, final_results, dd_pc, dd_exc>>
    /\ UNCHANGED <<cl_vars, ca_vars, sel_vars, nu_vars, ne_vars,
                   gg_vars, pd_vars, na_vars, ff_vars>>

ListOrders(n) == {f \in [1..n -> 1..n] : \A i, j \in 1..n : f[i] = f[j] => i = j}

\* deduplicate on the same records in another order
DeduplicatePermuted ==
    /\ dd_pc \in {"returned", "raised"}
    /\ dd_second_pc = "idle"
    /\ \E f \in ListOrders(Len(articles)) :
           LET permuted == [i \in DOMAIN articles |-> articles[f[i]]]
           IN  /\ dd_second_input' = permuted
               /\ dd_second_result' = OutcomeOf(deduplicate(permuted))
    /\ dd_second_pc' = "permuted"
    /\ UNCHANGED <<articles, stage1_results, stage2_results, final_results, dd_pc, dd_exc>>
    /\ UNCHANGED <<cl_vars, ca_vars, sel_vars, nu_vars, ne_vars,
                   gg_vars, pd_vars, na_vars, ff_vars>>

DedupTwiceNext ==
    \/ AddDatedArticle
    \/ Deduplicate
    \/ DeduplicateAgain
    \/ DeduplicatePermuted

SpecDedupTwice == DedupInit /\ [][DedupTwiceNext]_vars

(***************************************************************************)
(* Properties of deduplicate over two calls                                *)
(***************************************************************************)
\* C26: deduplicate applied to the list it returned returns that list, the
\* same records in the same order.
C26_Idempotent ==
    dd_second_pc = "again" =>
        /\ dd_second_result.exc = "none"
        /\ dd_second_result.final = final_results

\* the first call removed a record and kept two, and the second call was made
C26_Witness ==
    /\ dd_second_pc = "again"
    /\ Len(articles) = 3
    /\ Len(final_results) = 2
    /\ dd_second_input = final_results

DistinctPublished(list) ==
    \A i, j \in DOMAIN list : i # j => list[i].published # list[j].published

\* C27: when the publishedAt of the records are pairwise different, the call on
\* any other order of the records returns the same set of records.
C27_OrderIndependent ==
    (dd_second_pc = "permuted" /\ dd_pc = "returned" /\ DistinctPublished(articles)) =>
        /\ dd_second_result.exc = "none"
        /\ Range(dd_second_result.final) = Range(final_results)

\* three records of pairwise different publishedAt, one of them removed, were
\* given again with the first and the last exchanged
C27_Witness ==
    /\ dd_second_pc = "permuted"
    /\ dd_pc = "returned"
    /\ DistinctPublished(articles)
    /\ Len(articles) = 3
    /\ Len(final_results) = 2
    /\ dd_second_input = <<articles[3], articles[2], articles[1]>>
    /\ dd_second_result.final # final_results

\* with equal publishedAt the order of the input decides the survivors
C27_TiesDependOnOrder ==
    /\ dd_second_pc = "permuted"
    /\ dd_pc = "returned"
    /\ dd_second_result.exc = "none"
    /\ Range(dd_second_result.final) # Range(final_results)

====
